---- MODULE Spec2Model ----
(***************************************************************************)
(* Tile registration of odemis.acq.stitching._registrar: the               *)
(* ShiftRegistrar object, its addTile / getPositions operations and the    *)
(* helpers they call; then the cancellable tasks of                        *)
(* odemis.acq.align.delphi_calibration and odemis.acq.find_overlay.        *)
(*                                                                         *)
(* Conventions                                                             *)
(*  - A Python None is the empty tuple; an optional tile or integer v is   *)
(*    <<v>>; an optional pair is the pair itself.                          *)
(*  - Python lists of lists are sequences of sequences, read and written   *)
(*    through At / Put, which index from 0 and wrap negative indices as    *)
(*    Python does.                                                         *)
(*  - Lengths are in pixels of the session (MD_PIXEL_SIZE is (1, 1)), so   *)
(*    MD_POS values are integers.  Tile extents are powers of two, which   *)
(*    makes every float of the code an exact dyadic rational; the overlap  *)
(*    fraction is kept as a pair <<numerator, denominator>>.               *)
(*  - Match scores are in hundredths (BEST_MATCH 0.9 is 90).               *)
(*  - The pixel content of a tile is not modelled: what MeasureShift and   *)
(*    the correlation of _estimateMatch compute from the pixels is drawn   *)
(*    from MSVals and Scores for every call.                               *)
(***************************************************************************)
EXTENDS Integers, Sequences, FiniteSets, TLC

VARIABLES
    self,    \* the ShiftRegistrar object (a record of its fields)
    clean,   \* a second ShiftRegistrar, fed the same calls except those that
             \* failed on self with the shape or the ordering error
    calls,   \* number of addTile calls made so far
    last,    \* what the last addTile call was given and how it ended
    added,   \* the tiles of the successful addTile calls, in order
    ret,     \* what the last getPositions() call returned
    plan,    \* the positions the tile source will feed (<<>>: any position)
    identity,  \* an IdentityRegistrar object, given every tile self is given
    iret,    \* what the last getPositions() call on identity returned
    roiCall, \* the last direct call of self._estimateROI and its result
    matchCall, \* the images of a direct call of self._estimateMatch, its
               \* shift and its result
    est,     \* what the estimates of the last addTile call measured and
             \* accepted (<<>>: the estimates are not recorded)
    cal,     \* a calibration sub-task of delphi_calibration: its future, its
             \* thread and the calls of its canceller
    ovl      \* the FindOverlay task of find_overlay: its future, its thread,
             \* the grid scans, the global _future_scan and the cancellers

vars == <<self, clean, calls, last, added, ret, plan, identity, iret, roiCall, matchCall,
          est, cal, ovl>>

----------------------------------------------------------------------------
(* Bounds and input domains *)

MaxCalls == 2

\* the shifts given to _estimateROI are within -MaxShift .. MaxShift
MaxShift == 9

\* the pixels of the images given to _estimateMatch are within 0 .. MaxPixel
MaxPixel == 1

\* the shifts given to _estimateMatch are within -MaxMatchShift .. MaxMatchShift
MaxMatchShift == 2

BEST_MATCH == 90

GOOD_MATCH == 20

\* (numerator, denominator) of EXTREME_SHIFT = 0.6
EXTREME_SHIFT == <<3, 5>>

LEFT == 1

RIGHT == -1

NoneV == <<>>

Some(v) == <<v>>

\* tile.shape, (Y, X)
Shapes == {<<4, 4>>, <<4, 8>>}

\* the shape of the tiles of a planned scan
ScanShape == <<4, 4>>

\* the shape of the tiles of a scan of tall tiles
TallShape == <<8, 4>>

\* tile.metadata[MD_PIXEL_SIZE], (X, Y)
PxSize == <<1, 1>>

\* tile.metadata[MD_POS], (X, Y); Y grows upwards.  (4, 0) touches (0, 0)
\* without overlap for a tile 4 pixels wide.
Positions == {<<0, 0>>, <<3, 0>>, <<4, 0>>, <<0, -3>>, <<3, -3>>}

\* MD_POS of the dependent tiles passed along
DepLists == {NoneV, Some(<<>>), Some(<<[pos |-> <<1, 1>>], [pos |-> <<5, -2>>]>>)}

\* what MeasureShift can return
MSVals == {<<0, 0>>, <<-1, 0>>, <<1, 1>>}

\* what the normalised covariance of two regions can be, in hundredths
Scores == {-50, 0, 10, 50, 95}

----------------------------------------------------------------------------
(* Arithmetic of the code *)

Abs(n) == IF n < 0 THEN -n ELSE n

\* int(n / d) for d > 0: truncation towards zero
Trunc(n, d) == IF n >= 0 THEN n \div d ELSE -((-n) \div d)

Max2(a, b) == IF a >= b THEN a ELSE b

Min2(a, b) == IF a <= b THEN a ELSE b

\* Python's index i into a list of length n
PyIdx(i, n) == IF i < 0 THEN i + n ELSE i

IdxOk(i, n) == PyIdx(i, n) >= 0 /\ PyIdx(i, n) < n

\* grid[r][c]; the caller has checked the indices
At(grid, r, c) ==
    LET row == grid[PyIdx(r, Len(grid)) + 1]
    IN  row[PyIdx(c, Len(row)) + 1]

\* grid[r][c] = v
Put(grid, r, c, v) ==
    LET ri == PyIdx(r, Len(grid)) + 1
        ci == PyIdx(c, Len(grid[ri])) + 1
    IN  [grid EXCEPT ![ri][ci] = v]

\* the slot that grid[r][c] is, with indices from 0
Norm(grid, r, c) == <<PyIdx(r, Len(grid)), PyIdx(c, Len(grid[1]))>>

----------------------------------------------------------------------------
(* IdentityRegistrar *)

\* IdentityRegistrar.__init__
IdentityRegistrar == [tile_pos |-> <<>>, dep_tiles_pos |-> <<>>]

\* an addTile that stores the dependent tiles only
identityAddTileIfDependents(s, tile, dependent_tiles) ==
    IF dependent_tiles # NoneV /\ dependent_tiles # Some(<<>>)
    THEN [tile_pos |-> Append(s.tile_pos, tile.pos),
          dep_tiles_pos |-> Append(s.dep_tiles_pos,
                               [k \in 1 .. Len(dependent_tiles[1]) |->
                                   dependent_tiles[1][k].pos])]
    ELSE s

\* IdentityRegistrar.addTile: `if dependent_tiles` is false for None and for
\* the empty list
identityAddTile(s, tile, dependent_tiles) ==
    [tile_pos |-> Append(s.tile_pos, tile.pos),
     dep_tiles_pos |->
         IF dependent_tiles # NoneV /\ dependent_tiles # Some(<<>>)
         THEN Append(s.dep_tiles_pos,
                     [k \in 1 .. Len(dependent_tiles[1]) |-> dependent_tiles[1][k].pos])
         ELSE s.dep_tiles_pos]

\* IdentityRegistrar.getPositions
identityGetPositions(s) ==
    [exc |-> "none", tile_positions |-> s.tile_pos, dep_tile_positions |-> s.dep_tiles_pos]

----------------------------------------------------------------------------
(* ShiftRegistrar: construction and grid bookkeeping *)

\* ShiftRegistrar.__init__
ShiftRegistrar ==
    [nx |-> 1, ny |-> 1,
     coords_ver |-> <<<<NoneV>>>>, coords_hor |-> <<<<NoneV>>>>,
     shifts |-> <<<<NoneV>>>>, tiles |-> <<<<NoneV>>>>,
     last_ver |-> <<0, 0>>, last_hor |-> <<0, 0>>,
     ovrlp |-> <<0, 1>>,
     acqOrder |-> <<>>,
     shift_tile_dep_tiles |-> <<>>,
     px_size |-> NoneV, size |-> NoneV,
     posX |-> NoneV, posY |-> NoneV, pos_prev_x |-> NoneV,
     osize |-> NoneV, tsize |-> NoneV]

\* the slots (i, j) with tiles[i][j] is not None
Filled(s) ==
    {p \in (0 .. Len(s.tiles) - 1) \X (0 .. Len(s.tiles[1]) - 1) :
        At(s.tiles, p[1], p[2]) # NoneV}

\* math.hypot(pos - MD_POS of tiles[i][j]), squared
Dist2(s, pos, p) ==
    LET q == At(s.tiles, p[1], p[2])[1].pos
    IN  (pos[1] - q[1]) * (pos[1] - q[1]) + (pos[2] - q[2]) * (pos[2] - q[2])

\* a search that never updates minDist: the last filled slot, in row-major
\* order, is returned
find_last_tile(s, pos) ==
    LET best == CHOOSE p \in Filled(s) : \A q \in Filled(s) :
                    \/ p[1] > q[1]
                    \/ p[1] = q[1] /\ p[2] >= q[2]
    IN  [pos_prev |-> best, md_pos_prev |-> At(s.tiles, best[1], best[2])[1].pos]

\* _find_closest_tile: the first slot, in row-major order, at the least distance
find_closest_tile(s, pos) ==
    LET best == CHOOSE p \in Filled(s) : \A q \in Filled(s) :
                    \/ Dist2(s, pos, p) < Dist2(s, pos, q)
                    \/ /\ Dist2(s, pos, p) = Dist2(s, pos, q)
                       /\ \/ p[1] < q[1]
                          \/ p[1] = q[1] /\ p[2] <= q[2]
    IN  [pos_prev |-> best, md_pos_prev |-> At(s.tiles, best[1], best[2])[1].pos]

\* [None] * n
Nones(n) == [i \in 1 .. n |-> NoneV]

\* a growth that puts the new column in front of every row
updateGridInFront(s, direction) ==
    IF direction = "x"
    THEN [s EXCEPT !.nx = s.nx + 1,
                   !.tiles = [i \in 1 .. Len(s.tiles) |-> <<NoneV>> \o s.tiles[i]],
                   !.coords_ver = [i \in 1 .. Len(s.tiles) |-> <<NoneV>> \o s.coords_ver[i]],
                   !.coords_hor = [i \in 1 .. Len(s.tiles) |-> <<NoneV>> \o s.coords_hor[i]],
                   !.shifts = [i \in 1 .. Len(s.tiles) |-> <<NoneV>> \o s.shifts[i]]]
    ELSE [s EXCEPT !.tiles = Append(s.tiles, Nones(s.nx)),
                   !.coords_ver = Append(s.coords_ver, Nones(s.nx)),
                   !.coords_hor = Append(s.coords_hor, Nones(s.nx)),
                   !.shifts = Append(s.shifts, Nones(s.nx))]

\* _updateGrid
updateGrid(s, direction) ==
    IF direction = "x"
    THEN [s EXCEPT !.nx = s.nx + 1,
                   !.tiles = [i \in 1 .. Len(s.tiles) |-> Append(s.tiles[i], NoneV)],
                   !.coords_ver = [i \in 1 .. Len(s.tiles) |-> Append(s.coords_ver[i], NoneV)],
                   !.coords_hor = [i \in 1 .. Len(s.tiles) |-> Append(s.coords_hor[i], NoneV)],
                   !.shifts = [i \in 1 .. Len(s.tiles) |-> Append(s.shifts[i], NoneV)]]
    ELSE [s EXCEPT !.tiles = Append(s.tiles, Nones(s.nx)),
                   !.coords_ver = Append(s.coords_ver, Nones(s.nx)),
                   !.coords_hor = Append(s.coords_hor, Nones(s.nx)),
                   !.shifts = Append(s.shifts, Nones(s.nx))]

\* a shape test that compares the heights only
shapeDiffersInHeight(s, tile) == tile.shape[1] # At(s.tiles, 0, 0)[1].shape[1]

\* addTile, line 144: the shape test against the tile of slot (0, 0)
shapeDiffers(s, tile) == tile.shape # At(s.tiles, 0, 0)[1].shape

\* addTile, lines 155-174: the slot (posY, posX) next to the closest tile
selectSlot(pos_prev, ver_diff, hor_diff) ==
    IF Abs(ver_diff) > Abs(hor_diff)
    THEN IF ver_diff < 0
         THEN <<pos_prev[1] + 1, pos_prev[2]>>
         ELSE <<pos_prev[1] - 1, pos_prev[2]>>
    ELSE IF hor_diff > 0
         THEN <<pos_prev[1], pos_prev[2] + 1>>
         ELSE <<pos_prev[1], pos_prev[2] - 1>>

\* addTile, lines 161-162 and 170-171: the grid grows by the row or the column
\* of the new slot
growGrid(s, ver_diff, hor_diff, slot) ==
    IF Abs(ver_diff) > Abs(hor_diff)
    THEN IF ver_diff < 0 /\ Len(s.shifts) <= slot[1] THEN updateGrid(s, "y") ELSE s
    ELSE IF hor_diff > 0 /\ Len(s.shifts[1]) <= slot[2] THEN updateGrid(s, "x") ELSE s

\* addTile, lines 178-194: overlap fraction, overlap size and expected shift
\* along the axis of the larger displacement.  size_meter is extent * pixel
\* size, so osize = extent * ovrlp is |size_meter - diff| / pixel size.
setOverlap(s, ver_diff, hor_diff) ==
    LET vert == Abs(ver_diff) > Abs(hor_diff)
        extent == IF vert THEN s.size[1] ELSE s.size[2]
        px == IF vert THEN s.px_size[2] ELSE s.px_size[1]
        size_meter == extent * px
        diff == IF vert THEN Abs(ver_diff) ELSE Abs(hor_diff)
        num == Abs(size_meter - diff)
        osize == Trunc(extent * num, size_meter)
    IN  [s EXCEPT !.ovrlp = <<num, size_meter>>,
                  !.osize = Some(osize),
                  !.tsize = Some(extent - osize)]

\* addTile, lines 128-132: a list of dependent tiles opens a new entry
openDependents(s, dependent_tiles) ==
    IF dependent_tiles = NoneV
    THEN s
    ELSE [s EXCEPT !.shift_tile_dep_tiles = Append(@, <<>>)]

\* addTile, lines 196-198: the offset of every dependent tile is appended to
\* the last entry
storeDependents(s, tile, dependent_tiles) ==
    IF dependent_tiles = NoneV \/ dependent_tiles = Some(<<>>)
    THEN s
    ELSE LET dts == dependent_tiles[1]
             n == Len(s.shift_tile_dep_tiles)
             sdts == [k \in 1 .. Len(dts) |->
                         <<dts[k].pos[1] - tile.pos[1], dts[k].pos[2] - tile.pos[2]>>]
         IN  [s EXCEPT !.shift_tile_dep_tiles[n] = @ \o sdts]

\* addTile, lines 151-198: the tile is placed next to the closest tile c
placeTile(s1, tile, dependent_tiles, c) ==
    LET ver_diff == tile.pos[2] - c.md_pos_prev[2]
        hor_diff == tile.pos[1] - c.md_pos_prev[1]
        slot == selectSlot(c.pos_prev, ver_diff, hor_diff)
    IN  storeDependents(
            setOverlap([growGrid(s1, ver_diff, hor_diff, slot)
                           EXCEPT !.posY = Some(slot[1]), !.posX = Some(slot[2]),
                                  !.pos_prev_x = Some(c.pos_prev[2])],
                       ver_diff, hor_diff),
            tile, dependent_tiles)

\* addTile, lines 136-198, after the entry of the dependent tiles was opened.
\* exc is "none" or the exception raised; st is the registrar then.
locateTile(s1, tile, dependent_tiles) ==
    IF At(s1.tiles, 0, 0) = NoneV
    THEN [exc |-> "none",
          st |-> storeDependents(
                    [s1 EXCEPT !.size = tile.shape, !.px_size = tile.px_size,
                               !.posX = Some(0), !.posY = Some(0),
                               !.pos_prev_x = Some(0)],
                    tile, dependent_tiles)]
    ELSE IF shapeDiffers(s1, tile)
    THEN [exc |-> "ShapeMismatch", st |-> s1]
    ELSE [exc |-> "none",
          st |-> placeTile(s1, tile, dependent_tiles, find_closest_tile(s1, tile.pos))]

\* addTile, lines 128-198: everything before _compute_registration
addTileHead(s, tile, dependent_tiles) ==
    locateTile(openDependents(s, dependent_tiles), tile, dependent_tiles)

----------------------------------------------------------------------------
(* Pairwise shift estimation *)

\* _estimateROI: exc is TRUE when the no-overlap ValueError is raised; r1 and
\* r2 are (left, top, right, bottom) in the reference and the shifted tile
estimateROI(size, shift) ==
    IF shift[1] >= size[2] \/ shift[2] >= size[1]
    THEN [exc |-> TRUE, r1 |-> <<0, 0, 0, 0>>, r2 |-> <<0, 0, 0, 0>>]
    ELSE [exc |-> FALSE,
          r1 |-> <<Max2(0, Min2(size[2], shift[1])),
                   Max2(0, Min2(size[1], shift[2])),
                   Max2(0, Min2(size[2], shift[1] + size[2])),
                   Max2(0, Min2(size[1], shift[2] + size[1]))>>,
          r2 |-> <<Max2(0, Min2(size[2], -shift[1])),
                   Max2(0, Min2(size[1], -shift[2])),
                   Max2(0, Min2(size[2], size[2] - shift[1])),
                   Max2(0, Min2(size[1], size[1] - shift[2]))>>]

\* _estimateMatch, lines 295-297: min_shift <= hypot(shift) <= max_shift with
\* min/max = sqrt(2) * (tsize - osize) -/+ osize * EXTREME_SHIFT, decided in
\* integers: with a = tsize - osize, h = hypot(shift), E = en / ed, the test
\* is |ed h - ed sqrt(2) a| <= en osize, that is
\*   ed^2 h^2 + 2 ed^2 a^2 - (en osize)^2 <= 2 ed^2 a sqrt(2 h^2)
plausibleShift(s, shift) ==
    LET en == EXTREME_SHIFT[1]
        ed == EXTREME_SHIFT[2]
        a == s.tsize[1] - s.osize[1]
        h2 == shift[1] * shift[1] + shift[2] * shift[2]
        lhs == ed * ed * h2 + 2 * ed * ed * a * a
                  - en * en * s.osize[1] * s.osize[1]
        rhs2 == 8 * ed * ed * ed * ed * a * a * h2
    IN  IF a >= 0
        THEN lhs <= 0 \/ lhs * lhs <= rhs2
        ELSE lhs <= 0 /\ lhs * lhs >= rhs2

\* MeasureShift(b, a) on two regions: the regions of one tile at the same
\* place are equal, and their shift is (0, 0); otherwise what the
\* correlation finds in the pixels
MeasureShift(identical, ms) == IF identical THEN <<0, 0>> ELSE ms

\* _estimateMatch, lines 302-321: the normalised covariance of the two
\* regions; equal regions give 1, or 0 when they are flat
covariance(identical, score) ==
    IF identical THEN (IF score = 0 THEN 0 ELSE 100) ELSE score

\* _get_shift, lines 332-338, on the regions roi
shiftOfROI(roi, same, ms) ==
    IF roi.exc
    THEN [exc |-> "NoOverlap", v |-> <<0, 0>>]
    ELSE [exc |-> "none", v |-> MeasureShift(same /\ roi.r1 = roi.r2, ms)]

\* _get_shift.  same: the two tiles are one object
get_shift(s, same, shift, ms) == shiftOfROI(estimateROI(s.size, shift), same, ms)

\* _estimateMatch, lines 300-321, on the regions roi
matchOfROI(roi, same, score) ==
    IF roi.exc
    THEN [exc |-> "NoOverlap", v |-> 0]
    ELSE [exc |-> "none", v |-> covariance(same /\ roi.r1 = roi.r2, score)]

\* _estimateMatch
estimateMatch(s, same, shift, score) ==
    IF ~plausibleShift(s, shift)
    THEN [exc |-> "none", v |-> 0]
    ELSE matchOfROI(estimateROI(s.size, shift), same, score)

\* image[t:b, l:r], the pixels of the region row after row
crop(image, l, t, r, b) ==
    IF r <= l \/ b <= t THEN <<>>
    ELSE [k \in 1 .. (r - l) * (b - t) |->
              image[t + 1 + ((k - 1) \div (r - l))][l + 1 + ((k - 1) % (r - l))]]

RECURSIVE SumProd(_, _)
SumProd(a, b) == IF a = <<>> THEN 0 ELSE Head(a) * Head(b) + SumProd(Tail(a), Tail(b))

RECURSIVE SumPix(_)
SumPix(a) == IF a = <<>> THEN 0 ELSE Head(a) + SumPix(Tail(a))

\* a score c / sqrt(vv), kept exact; c = 0 and vv = 1 for the score 0
Score(c, vv) == [kind |-> "score", c |-> c, vv |-> vv]

\* _estimateMatch, lines 305-321, on the pixels a and b of the two regions:
\* with n pixels, n^2 covar = n sum(a b) - sum(a) sum(b) and
\* n^2 var = n sum(a^2) - sum(a)^2, so covar / (stDev[0] stDev[1]) is
\* c / sqrt(va vb).  Regions without pixels divide 0 by 0, which numpy
\* evaluates to nan.
pearson(a, b) ==
    IF Len(a) = 0 THEN [kind |-> "nan", c |-> 0, vv |-> 1]
    ELSE IF Len(a) * SumProd(a, a) - SumPix(a) * SumPix(a) = 0
            \/ Len(b) * SumProd(b, b) - SumPix(b) * SumPix(b) = 0
    THEN Score(0, 1)
    ELSE Score(Len(a) * SumProd(a, b) - SumPix(a) * SumPix(b),
               (Len(a) * SumProd(a, a) - SumPix(a) * SumPix(a))
                   * (Len(b) * SumProd(b, b) - SumPix(b) * SumPix(b)))

\* _estimateMatch, lines 300-321, on the pixels of the regions roi
matchOfPixels(roi, imageA, imageB) ==
    IF roi.exc
    THEN [exc |-> "NoOverlap", v |-> Score(0, 1)]
    ELSE [exc |-> "none",
          v |-> pearson(crop(imageA, roi.r1[1], roi.r1[2], roi.r1[3], roi.r1[4]),
                        crop(imageB, roi.r2[1], roi.r2[2], roi.r2[3], roi.r2[4]))]

\* _estimateMatch on the pixels of two images
estimateMatchOfImages(s, imageA, imageB, shift) ==
    IF ~plausibleShift(s, shift)
    THEN [exc |-> "none", v |-> Score(0, 1)]
    ELSE matchOfPixels(estimateROI(s.size, shift), imageA, imageB)

\* the entries of _mean_shift: row `row`, columns 1 .. col-1, then column
\* `col`, rows 1 .. row-1, those that are not None
meanEntries(row, col, coords_array) ==
    SelectSeq([i \in 1 .. Max2(col - 1, 0) |-> At(coords_array, row, i)]
                  \o [i \in 1 .. Max2(row - 1, 0) |-> At(coords_array, i, col)],
              LAMBDA v : v # NoneV)

RECURSIVE SumSeq(_, _)
SumSeq(seq, k) == IF seq = <<>> THEN 0 ELSE Head(seq)[k] + SumSeq(Tail(seq), k)

\* _mean_shift, lines 347-351: exc is TRUE when ValueError is raised
meanOf(val) ==
    IF val = <<>>
    THEN [exc |-> TRUE, v |-> <<0, 0>>]
    ELSE [exc |-> FALSE,
          v |-> <<Trunc(SumSeq(val, 1), Len(val)), Trunc(SumSeq(val, 2), Len(val))>>]

\* _mean_shift
mean_shift(row, col, coords_array) == meanOf(meanEntries(row, col, coords_array))

\* the pair (x, y) and the match accepted so far
Accepted(xy, match) == [exc |-> "none", xy |-> xy, match |-> match]

Raised(exc) == [exc |-> exc, xy |-> <<0, 0>>, match |-> 0]

\* what one estimate draws from the pixels: the direct measurement (ms1) and
\* its match (m1), the match of the fallback shift (mc), the drift measured
\* from the fallback shift (ms2) and the match of the refined shift (mr)
NoOracle == [ms1 |-> <<0, 0>>, m1 |-> 0, mc |-> 0, ms2 |-> <<0, 0>>, mr |-> 0]

\* lines 379-381: with xdir == RIGHT the tiles are passed to _get_shift in
\* the other order and the result is negated
negated(g, swap) ==
    [exc |-> g.exc, v |-> IF swap THEN <<-g.v[1], -g.v[2]>> ELSE g.v]

\* a candidate that replaces the accepted shift also when the matches are
\* equal
betterOrEqual(match_c, match) == match_c >= match

\* lines 397 and 410: a candidate replaces the accepted shift
better(match_c, match) == match_c > match

\* lines 395-399 and 408-412: the candidate xy, of match m, against the
\* accepted shift d
candidate(d, xy, m) ==
    IF m.exc # "none" THEN Raised(m.exc)
    ELSE IF better(m.v, d.match) THEN Accepted(xy, m.v)
    ELSE d

\* lines 382-383 and 454-455: the measured shift xy with its match m
measured(xy, m) == IF m.exc # "none" THEN Raised(m.exc) ELSE Accepted(xy, m.v)

\* lines 375-383 and 453-455: the match of the measured shift g
directMatch(s, same, exp_shift, o, g) ==
    IF g.exc # "none" THEN Raised(g.exc)
    ELSE measured(g.v, estimateMatch(s, same,
                                     <<exp_shift[1] - g.v[1], exp_shift[2] - g.v[2]>>,
                                     o.m1))

\* _pos_to_left_right, lines 372-383, and _pos_to_top, lines 453-455: the
\* direct measurement against the neighbour
directShift(s, same, swap, exp_shift, o) ==
    directMatch(s, same, exp_shift, o,
                negated(get_shift(s, same, exp_shift, o.ms1), swap))

\* lines 385 and 457: the fallback is tried
needsFallback(match, row, col) == match < BEST_MATCH /\ (row > 1 \/ col > 1)

\* lines 389-394 and 461-467: the mean shift, or the last shift measured
fallbackMean(ms, last_shift) == IF ms.exc THEN last_shift ELSE ms.v

\* lines 404-412 and 477-485: the drift g measured from the fallback shift
refineFrom(s, same, exp_shift, o, mean, a1, g) ==
    IF g.exc # "none" THEN Raised(g.exc)
    ELSE candidate(a1, <<mean[1] + g.v[1], mean[2] + g.v[2]>>,
                   estimateMatch(s, same,
                                 <<exp_shift[1] - (mean[1] + g.v[1]),
                                   exp_shift[2] - (mean[2] + g.v[2])>>, o.mr))

\* lines 401-412 and 474-485: the refinement, tried unless the fallback
\* shift is (0, 0)
refine(s, same, exp_shift, o, mean, a1) ==
    IF a1.exc # "none" \/ mean = <<0, 0>> THEN a1
    ELSE refineFrom(s, same, exp_shift, o, mean, a1,
                    get_shift(s, same,
                              <<exp_shift[1] - mean[1], exp_shift[2] - mean[2]>>, o.ms2))

\* lines 395-412 and 468-485: the fallback shift `mean` and its refinement
fallbackFrom(s, same, exp_shift, d, o, mean) ==
    refine(s, same, exp_shift, o, mean,
           candidate(d, mean,
                     estimateMatch(s, same,
                                   <<exp_shift[1] - mean[1], exp_shift[2] - mean[2]>>,
                                   o.mc)))

\* _pos_to_left_right, lines 385-412, and _pos_to_top, lines 457-485
fallbackShift(s, same, exp_shift, coords_array, last_shift, row, col, d, o) ==
    fallbackFrom(s, same, exp_shift, d, o,
                 fallbackMean(mean_shift(row, col, coords_array), last_shift))

\* the fallback after the direct measurement d, when it is needed
orFallback(s, same, exp_shift, coords_array, last_shift, row, col, o, d) ==
    IF d.exc = "none" /\ needsFallback(d.match, row, col)
    THEN fallbackShift(s, same, exp_shift, coords_array, last_shift, row, col, d, o)
    ELSE d

\* the shift and the match of one estimate
shiftEstimate(s, same, swap, exp_shift, coords_array, last_shift, row, col, o) ==
    orFallback(s, same, exp_shift, coords_array, last_shift, row, col, o,
               directShift(s, same, swap, exp_shift, o))

----------------------------------------------------------------------------
(* Position reconciliation *)

\* base + sign * extent * (1 - ovrlp) - x, truncated: the position along the
\* axis of extent `extent`, one spacing away from base
spacedPos(s, base, extent, sign, x) ==
    Trunc(base * s.ovrlp[2] + sign * extent * (s.ovrlp[2] - s.ovrlp[1]) - x * s.ovrlp[2],
          s.ovrlp[2])

\* what an estimate returns: the registrar, the position and the match
Estimate(exc, st, pos, match) == [exc |-> exc, st |-> st, pos |-> pos, match |-> match]

\* a store that records the shift in the history whatever its match
storeHorAlways(s, row, col, xy, match) ==
    [s EXCEPT !.last_hor = xy, !.coords_hor = Put(@, row, col, xy)]

\* _pos_to_left_right, lines 414-417: the last shift and the history
storeHor(s, row, col, xy, match) ==
    [s EXCEPT !.last_hor = xy,
              !.coords_hor = IF match >= BEST_MATCH THEN Put(@, row, col, xy) ELSE @]

\* _pos_to_top, lines 487-490
storeVer(s, row, col, xy, match) ==
    [s EXCEPT !.last_ver = xy,
              !.coords_ver = IF match >= BEST_MATCH THEN Put(@, row, col, xy) ELSE @]

\* _pos_to_left_right, lines 414-432, with the estimate e against the
\* neighbour at prev_pos
horPos(s, row, col, xdir, prev_pos, e) ==
    IF e.exc # "none" THEN Estimate(e.exc, s, NoneV, 0)
    ELSE IF prev_pos = NoneV
    THEN Estimate("TypeError", storeHor(s, row, col, e.xy, e.match), NoneV, 0)
    ELSE Estimate("none", storeHor(s, row, col, e.xy, e.match),
                  <<spacedPos(s, prev_pos[1], s.size[2],
                              IF xdir = LEFT THEN 1 ELSE -1, e.xy[1]),
                    prev_pos[2] - e.xy[2]>>,
                  e.match)

\* the column of the neighbour of _pos_to_left_right
prevCol(col, xdir) == IF xdir = LEFT THEN col - 1 ELSE col + 1

\* _pos_to_left_right
pos_to_left_right(s, row, col, xdir, o) ==
    IF ~((xdir = LEFT /\ col > 0) \/ (xdir = RIGHT /\ col < s.nx))
    THEN Estimate("none", s, NoneV, 0)
    ELSE horPos(s, row, col, xdir, At(s.shifts, row, prevCol(col, xdir)),
                shiftEstimate(s,
                              Norm(s.tiles, row, prevCol(col, xdir)) = Norm(s.tiles, row, col),
                              xdir = RIGHT, <<s.tsize[1], 0>>,
                              s.coords_hor, s.last_hor, row, col, o))

\* a vertical position that adds the shift along x
verPosAddingX(s, row, col, prev_pos, e) ==
    IF e.exc # "none" THEN Estimate(e.exc, s, NoneV, 0)
    ELSE IF prev_pos = NoneV
    THEN Estimate("TypeError", storeVer(s, row, col, e.xy, e.match), NoneV, 0)
    ELSE Estimate("none", storeVer(s, row, col, e.xy, e.match),
                  <<prev_pos[1] + e.xy[1],
                    spacedPos(s, prev_pos[2], s.size[1], 1, e.xy[2])>>,
                  e.match)

\* _pos_to_top, lines 487-495, with the estimate e against the tile above
verPos(s, row, col, prev_pos, e) ==
    IF e.exc # "none" THEN Estimate(e.exc, s, NoneV, 0)
    ELSE IF prev_pos = NoneV
    THEN Estimate("TypeError", storeVer(s, row, col, e.xy, e.match), NoneV, 0)
    ELSE Estimate("none", storeVer(s, row, col, e.xy, e.match),
                  <<prev_pos[1] - e.xy[1],
                    spacedPos(s, prev_pos[2], s.size[1], 1, e.xy[2])>>,
                  e.match)

\* _pos_to_top
pos_to_top(s, row, col, o) ==
    IF ~(row > 0)
    THEN Estimate("none", s, NoneV, 0)
    ELSE verPos(s, row, col, At(s.shifts, row - 1, col),
                shiftEstimate(s, FALSE, FALSE, <<0, s.tsize[1]>>,
                              s.coords_ver, s.last_ver, row, col, o))

\* an ordering test that starts one row and one column too late
orderingViolatedFromSecond(s, row, col) ==
    /\ row > 1 /\ At(s.tiles, row - 1, col) = NoneV
    /\ col > 1 /\ At(s.tiles, row, col - 1) = NoneV

\* _compute_registration, line 508: the ordering test
orderingViolated(s, row, col) ==
    /\ row >= 1 /\ At(s.tiles, row - 1, col) = NoneV
    /\ col >= 1 /\ At(s.tiles, row, col - 1) = NoneV

\* _compute_registration, line 512
storeTile(s, tile, row, col) == [s EXCEPT !.tiles = Put(@, row, col, Some(tile))]

\* _compute_registration, lines 524-533: the side of the horizontal
\* neighbour to measure against, 0 when there is none
horNeighbour(s, row, col) ==
    IF s.pos_prev_x[1] < col
    THEN IF col # 0 /\ At(s.tiles, row, col - 1) # NoneV THEN LEFT ELSE 0
    ELSE IF s.pos_prev_x[1] > col
    THEN IF col # s.nx /\ At(s.tiles, row, col + 1) # NoneV THEN RIGHT ELSE 0
    ELSE 0

\* _compute_registration, line 535: "yes" when the tile above is measured
\* against, "IndexError" when tiles[row - 1] does not exist
topNeighbour(s, row, col) ==
    IF row = 0 THEN "no"
    ELSE IF ~IdxOk(row - 1, Len(s.tiles)) THEN "IndexError"
    ELSE IF At(s.tiles, row - 1, col) # NoneV THEN "yes"
    ELSE "no"

\* _compute_registration, lines 516-517: the position without any shift
idealPos(s, row, col) ==
    <<Trunc(col * s.size[2] * (s.ovrlp[2] - s.ovrlp[1]), s.ovrlp[2]),
      Trunc(row * s.size[1] * (s.ovrlp[2] - s.ovrlp[1]), s.ovrlp[2])>>

\* a reconciliation that averages two estimates whatever their matches
reconcileAveraging(pos, match, pos2, match2, ideal) ==
    IF pos = NoneV /\ pos2 = NoneV THEN ideal
    ELSE IF pos = NoneV THEN pos2
    ELSE IF pos2 = NoneV THEN pos
    ELSE <<Trunc(pos[1] + pos2[1], 2), Trunc(pos[2] + pos2[2], 2)>>

\* a reconciliation in which the vertical estimate wins when the matches are
\* equal
reconcileVerticalOnTie(pos, match, pos2, match2, ideal) ==
    IF pos = NoneV /\ pos2 = NoneV THEN ideal
    ELSE IF pos = NoneV THEN pos2
    ELSE IF pos2 = NoneV THEN pos
    ELSE IF match > GOOD_MATCH /\ match2 > GOOD_MATCH
    THEN <<Trunc(pos[1] + pos2[1], 2), Trunc(pos[2] + pos2[2], 2)>>
    ELSE IF match2 >= match /\ ~(match2 = 0 /\ match = 0) THEN pos2
    ELSE IF match2 = 0 /\ match = 0 THEN ideal
    ELSE pos

\* _compute_registration, lines 541-555
reconcile(pos, match, pos2, match2, ideal) ==
    IF pos = NoneV /\ pos2 = NoneV THEN ideal
    ELSE IF pos = NoneV THEN pos2
    ELSE IF pos2 = NoneV THEN pos
    ELSE IF match > GOOD_MATCH /\ match2 > GOOD_MATCH
    THEN <<Trunc(pos[1] + pos2[1], 2), Trunc(pos[2] + pos2[2], 2)>>
    ELSE IF match2 > match THEN pos2
    ELSE IF match2 = 0 /\ match = 0 THEN ideal
    ELSE pos

\* _compute_registration, lines 558-560
storeShift(s, row, col, pos) ==
    [s EXCEPT !.shifts = Put(@, row, col, pos),
              !.acqOrder = Append(@, <<row, col>>)]

\* _compute_registration, lines 524-533: the horizontal estimate
horEstimate(s, row, col, oh) ==
    IF horNeighbour(s, row, col) = 0
    THEN Estimate("none", s, NoneV, 0)
    ELSE pos_to_left_right(s, row, col, horNeighbour(s, row, col), oh)

\* _compute_registration, lines 535-538: the vertical estimate
verEstimate(s, row, col, ov) ==
    IF topNeighbour(s, row, col) = "yes"
    THEN pos_to_top(s, row, col, ov)
    ELSE Estimate("none", s, NoneV, 0)

\* _compute_registration, lines 540-560, with the estimates h and v
afterVer(row, col, ideal, h, v) ==
    IF v.exc # "none" THEN [exc |-> v.exc, st |-> v.st]
    ELSE [exc |-> "none",
          st |-> storeShift(v.st, row, col,
                            reconcile(h.pos, h.match, v.pos, v.match, ideal))]

\* _compute_registration, lines 535-560, with the horizontal estimate h
afterHor(row, col, ov, ideal, h) ==
    IF h.exc # "none" THEN [exc |-> h.exc, st |-> h.st]
    ELSE IF topNeighbour(h.st, row, col) = "IndexError"
    THEN [exc |-> "IndexError", st |-> h.st]
    ELSE afterVer(row, col, ideal, h, verEstimate(h.st, row, col, ov))

\* _compute_registration.  oh and ov are what the horizontal and the
\* vertical estimate draw from the pixels
compute_registration(s, tile, row, col, oh, ov) ==
    IF orderingViolated(s, row, col)
    THEN [exc |-> "OrderingError", st |-> s]
    ELSE afterHor(row, col, ov, idealPos(s, row, col),
                  horEstimate(storeTile(s, tile, row, col), row, col, oh))

\* addTile, line 200, after the head hd of the call
register(hd, tile, oh, ov) ==
    IF hd.exc # "none" THEN hd
    ELSE compute_registration(hd.st, tile, hd.st.posY[1], hd.st.posX[1], oh, ov)

\* ShiftRegistrar.addTile
addTile(s, tile, dependent_tiles, oh, ov) ==
    register(addTileHead(s, tile, dependent_tiles), tile, oh, ov)

\* getPositions, lines 209-217: the position of the tile of acqOrder[i]
tilePosition(s, i) ==
    LET first == At(s.tiles, 0, 0)[1].pos
        firstPosition == <<first[1] \div s.px_size[1], first[2] \div s.px_size[2]>>
        shift == At(s.shifts, s.acqOrder[i][1], s.acqOrder[i][2])
    IN  <<(shift[1] + firstPosition[1]) * s.px_size[1],
          (firstPosition[2] - shift[2]) * s.px_size[2]>>

\* getPositions, lines 220-224: zip pairs the i-th position with the i-th
\* entry of shift_tile_dep_tiles
depPositions(s, tile_positions) ==
    [i \in 1 .. Min2(Len(tile_positions), Len(s.shift_tile_dep_tiles)) |->
        [k \in 1 .. Len(s.shift_tile_dep_tiles[i]) |->
            <<tile_positions[i][1] + s.shift_tile_dep_tiles[i][k][1],
              tile_positions[i][2] + s.shift_tile_dep_tiles[i][k][2]>>]]

\* getPositions, lines 209-226, with the positions of the main tiles
positionsOf(s, tile_positions) ==
    [exc |-> "none", tile_positions |-> tile_positions,
     dep_tile_positions |-> depPositions(s, tile_positions)]

\* ShiftRegistrar.getPositions
getPositions(s) ==
    IF At(s.tiles, 0, 0) = NoneV
    THEN [exc |-> "AttributeError", tile_positions |-> <<>>, dep_tile_positions |-> <<>>]
    ELSE IF \E i \in 1 .. Len(s.acqOrder) :
                At(s.shifts, s.acqOrder[i][1], s.acqOrder[i][2]) = NoneV
    THEN [exc |-> "TypeError", tile_positions |-> <<>>, dep_tile_positions |-> <<>>]
    ELSE positionsOf(s, [i \in 1 .. Len(s.acqOrder) |-> tilePosition(s, i)])

----------------------------------------------------------------------------
(* The callers: a tile source that adds tiles, and getPositions() at any time *)

\* planned scans of 4 x 4 tiles, 3 pixels apart: a serpentine and a raster
\* over 3 x 2 positions, a scan that starts down the first column, and a
\* spiral over 3 x 3 positions
Serpentine == <<<<0, 0>>, <<3, 0>>, <<6, 0>>, <<6, -3>>, <<3, -3>>, <<0, -3>>>>

Raster == <<<<0, 0>>, <<3, 0>>, <<6, 0>>, <<0, -3>>, <<3, -3>>, <<6, -3>>>>

ColumnFirst == <<<<0, 0>>, <<0, -3>>, <<3, -3>>, <<6, -3>>, <<6, 0>>, <<3, 0>>>>

Spiral == <<<<0, 0>>, <<3, 0>>, <<6, 0>>, <<6, -3>>, <<6, -6>>, <<3, -6>>>>

\* a scan that moves along the diagonal, where |dx| = |dy|
Diagonal == <<<<0, 0>>, <<3, -3>>, <<6, -6>>, <<6, -3>>, <<3, -6>>, <<0, -3>>>>

\* a raster over 2 x 2 positions of tiles 4 wide and 8 high, 3 pixels apart
\* along x and 6 along y: the tile on the left is nearer than the tile above
TallRaster == <<<<0, 0>>, <<3, 0>>, <<0, -6>>, <<3, -6>>>>

\* a scan of tiles declared more than two tile widths apart
Sparse == <<<<0, 0>>, <<9, 0>>, <<9, -9>>>>

Scans == {Serpentine, Raster, ColumnFirst, Spiral, Diagonal, TallRaster, Sparse}

\* the shape of the tiles of the scan p
shapeOfScan(p) == IF p = TallRaster THEN TallShape ELSE ScanShape

NoTile == [id |-> 0, shape |-> <<0, 0>>, pos |-> <<0, 0>>, px_size |-> PxSize]

NotCalled == [exc |-> "notcalled", tile_positions |-> <<>>, dep_tile_positions |-> <<>>]

\* the positions of the tiles the registrar holds or has registered
Taken ==
    {At(self.tiles, p[1], p[2])[1].pos : p \in Filled(self)}
        \cup {added[i].tile.pos : i \in 1 .. Len(added)}

\* the tiles the next addTile call can be given: the tile source acquires
\* every position once, and gives a position again only after a call that
\* did not keep the tile
TileInputs ==
    IF plan = <<>>
    THEN {[id |-> calls + 1, shape |-> sh, pos |-> p, px_size |-> PxSize] :
              sh \in Shapes, p \in Positions \ Taken}
    ELSE {[id |-> calls + 1, shape |-> shapeOfScan(plan), pos |-> plan[calls + 1],
           px_size |-> PxSize]}

\* the dependent tiles the next addTile call can be given
DepInputs == IF plan = <<>> THEN DepLists ELSE {NoneV}

\* the shifts MeasureShift can measure and the scores the covariance can
\* take: the planned scans are of tiles that register well or poorly
ScanMSVals == {<<0, 0>>, <<-1, 0>>, <<0, -1>>}

ScanScores == {10, 95}

MSInputs == IF plan = <<>> THEN MSVals ELSE ScanMSVals

ScoreInputs == IF plan = <<>> THEN Scores ELSE ScanScores

\* the oracles of an estimate whose direct measurement is d: the fallback is
\* drawn only when it is tried
OraclesAfter(direct, d, row, col) ==
    IF d.exc = "none" /\ needsFallback(d.match, row, col)
    THEN {[direct EXCEPT !.mc = mc, !.ms2 = ms2, !.mr = mr] :
              mc \in ScoreInputs, ms2 \in MSInputs, mr \in ScoreInputs}
    ELSE {direct}

\* the covariance of the direct measurement is computed for the shift g
readsScore(s, exp_shift, g) ==
    /\ g.exc = "none"
    /\ plausibleShift(s, <<exp_shift[1] - g.v[1], exp_shift[2] - g.v[2]>>)
    /\ ~estimateROI(s.size, <<exp_shift[1] - g.v[1], exp_shift[2] - g.v[2]>>).exc

\* the scores the direct measurement g can draw: one when none is read
DirectScores(s, exp_shift, g) ==
    IF readsScore(s, exp_shift, g) THEN ScoreInputs ELSE {0}

\* the oracles of an estimate whose direct measurement drew ms1
OraclesOf(s, same, swap, exp_shift, row, col, ms1) ==
    UNION {OraclesAfter([NoOracle EXCEPT !.ms1 = ms1, !.m1 = m1],
                        directShift(s, same, swap, exp_shift,
                                    [NoOracle EXCEPT !.ms1 = ms1, !.m1 = m1]),
                        row, col)
           : m1 \in DirectScores(s, exp_shift,
                                 negated(get_shift(s, same, exp_shift, ms1), swap))}

\* what one estimate can draw from the pixels, listing only what it reads
Oracles(s, same, swap, exp_shift, row, col) ==
    UNION {OraclesOf(s, same, swap, exp_shift, row, col, ms1) : ms1 \in MSInputs}

\* the head of the call stored the tile: it passed the shape and ordering tests
Placed(hd) ==
    hd.exc = "none" /\ ~orderingViolated(hd.st, hd.st.posY[1], hd.st.posX[1])

\* the oracles of the horizontal estimate of the tile stored in s1
HorOraclesAt(s1, row, col, xdir) ==
    IF xdir = 0 THEN {NoOracle}
    ELSE Oracles(s1, Norm(s1.tiles, row, prevCol(col, xdir)) = Norm(s1.tiles, row, col),
                 xdir = RIGHT, <<s1.tsize[1], 0>>, row, col)

HorOracles(hd, tile) ==
    IF ~Placed(hd) THEN {NoOracle}
    ELSE HorOraclesAt(storeTile(hd.st, tile, hd.st.posY[1], hd.st.posX[1]),
                      hd.st.posY[1], hd.st.posX[1],
                      horNeighbour(storeTile(hd.st, tile, hd.st.posY[1], hd.st.posX[1]),
                                   hd.st.posY[1], hd.st.posX[1]))

\* the oracles of the vertical estimate of the tile stored in s1
VerOraclesAt(s1, row, col) ==
    IF row > 0 /\ topNeighbour(s1, row, col) = "yes"
    THEN Oracles(s1, FALSE, FALSE, <<0, s1.tsize[1]>>, row, col)
    ELSE {NoOracle}

VerOracles(hd, tile) ==
    IF ~Placed(hd) THEN {NoOracle}
    ELSE VerOraclesAt(storeTile(hd.st, tile, hd.st.posY[1], hd.st.posX[1]),
                      hd.st.posY[1], hd.st.posX[1])

\* no estimate was made on an axis
NoEstimate ==
    [made |-> FALSE, d |-> Accepted(<<0, 0>>, 0), tried |-> FALSE, mean |-> <<0, 0>>,
     c |-> NoneV, r |-> NoneV, e |-> Accepted(<<0, 0>>, 0)]

\* lines 395-396 and 468-469: the match of the fallback shift `mean`
fallbackMatch(s, same, exp_shift, mean, o) ==
    estimateMatch(s, same, <<exp_shift[1] - mean[1], exp_shift[2] - mean[2]>>, o.mc)

\* lines 404-409 and 477-482: the fallback shift moved by the drift measured
\* from it, and its match
refinedShift(s, same, exp_shift, mean, o, g) ==
    IF g.exc # "none" THEN Raised(g.exc)
    ELSE measured(<<mean[1] + g.v[1], mean[2] + g.v[2]>>,
                  estimateMatch(s, same,
                                <<exp_shift[1] - (mean[1] + g.v[1]),
                                  exp_shift[2] - (mean[2] + g.v[2])>>, o.mr))

\* what is recorded of the fallback of an estimate whose direct measurement
\* is d: the fallback shift, its match c and the refined shift r
fallbackRecord(s, same, exp_shift, o, d, e, mean, c) ==
    [made |-> TRUE, d |-> d, tried |-> TRUE, mean |-> mean, c |-> c,
     r |-> IF c.exc # "none" \/ mean = <<0, 0>> THEN NoneV
           ELSE refinedShift(s, same, exp_shift, mean, o,
                             get_shift(s, same,
                                       <<exp_shift[1] - mean[1], exp_shift[2] - mean[2]>>,
                                       o.ms2)),
     e |-> e]

\* what is recorded of one estimate: the direct measurement d, the fallback
\* when it was tried, and the shift e the estimate accepted
estimateRecord(s, same, exp_shift, coords_array, last_shift, row, col, o, d, e) ==
    IF d.exc = "none" /\ needsFallback(d.match, row, col)
    THEN fallbackRecord(s, same, exp_shift, o, d, e,
                        fallbackMean(mean_shift(row, col, coords_array), last_shift),
                        fallbackMatch(s, same, exp_shift,
                                      fallbackMean(mean_shift(row, col, coords_array),
                                                   last_shift), o))
    ELSE [NoEstimate EXCEPT !.made = TRUE, !.d = d, !.e = e]

\* the record of the horizontal estimate of the tile stored in s1
horRecord(s1, row, col, xdir, oh) ==
    IF xdir = 0 THEN NoEstimate
    ELSE estimateRecord(s1, Norm(s1.tiles, row, prevCol(col, xdir)) = Norm(s1.tiles, row, col),
                        <<s1.tsize[1], 0>>, s1.coords_hor, s1.last_hor, row, col, oh,
                        directShift(s1,
                                    Norm(s1.tiles, row, prevCol(col, xdir))
                                        = Norm(s1.tiles, row, col),
                                    xdir = RIGHT, <<s1.tsize[1], 0>>, oh),
                        shiftEstimate(s1,
                                      Norm(s1.tiles, row, prevCol(col, xdir))
                                          = Norm(s1.tiles, row, col),
                                      xdir = RIGHT, <<s1.tsize[1], 0>>,
                                      s1.coords_hor, s1.last_hor, row, col, oh))

\* the record of the vertical estimate made after the horizontal estimate h
verRecord(h, row, col, ov) ==
    IF h.exc = "none" /\ topNeighbour(h.st, row, col) = "yes"
    THEN estimateRecord(h.st, FALSE, <<0, h.st.tsize[1]>>, h.st.coords_ver,
                        h.st.last_ver, row, col, ov,
                        directShift(h.st, FALSE, FALSE, <<0, h.st.tsize[1]>>, ov),
                        shiftEstimate(h.st, FALSE, FALSE, <<0, h.st.tsize[1]>>,
                                      h.st.coords_ver, h.st.last_ver, row, col, ov))
    ELSE NoEstimate

\* the estimates of the tile stored in s1
estimatesAt(s1, row, col, oh, ov) ==
    [before |-> s1,
     hor |-> horRecord(s1, row, col, horNeighbour(s1, row, col), oh),
     ver |-> verRecord(horEstimate(s1, row, col, oh), row, col, ov)]

\* the estimates of the call of head hd
estimatesOf(hd, tile, oh, ov) ==
    IF ~Placed(hd) THEN [before |-> hd.st, hor |-> NoEstimate, ver |-> NoEstimate]
    ELSE estimatesAt(storeTile(hd.st, tile, hd.st.posY[1], hd.st.posX[1]),
                     hd.st.posY[1], hd.st.posX[1], oh, ov)

\* what is recorded of a call that computed the slot n for its tile: what the
\* grid held around n before the tile was stored
SlotRecord(exc, tile, dependent_tiles, stored, tiles, slot, n) ==
    [exc |-> exc, tile |-> tile, deps |-> dependent_tiles, located |-> TRUE,
     stored |-> stored, slot |-> slot, norm |-> n,
     hadAbove |-> n[1] >= 1 /\ At(tiles, n[1] - 1, n[2]) # NoneV,
     hadLeft |-> n[2] >= 1 /\ At(tiles, n[1], n[2] - 1) # NoneV,
     wasFilled |-> At(tiles, n[1], n[2]) # NoneV]

\* what is recorded of a call: its arguments, how it ended, the slot computed
\* for the tile, whether the tile was stored and what it found there
CallRecord(hd, tile, dependent_tiles, exc) ==
    IF hd.exc # "none"
    THEN [exc |-> exc, tile |-> tile, deps |-> dependent_tiles, located |-> FALSE,
          stored |-> FALSE, slot |-> <<0, 0>>, norm |-> <<0, 0>>,
          hadAbove |-> FALSE, hadLeft |-> FALSE, wasFilled |-> FALSE]
    ELSE SlotRecord(exc, tile, dependent_tiles, exc # "OrderingError", hd.st.tiles,
                    <<hd.st.posY[1], hd.st.posX[1]>>,
                    Norm(hd.st.tiles, hd.st.posY[1], hd.st.posX[1]))

NoCall ==
    [exc |-> "init", tile |-> NoTile, deps |-> NoneV, located |-> FALSE,
     stored |-> FALSE, slot |-> <<0, 0>>, norm |-> <<0, 0>>,
     hadAbove |-> FALSE, hadLeft |-> FALSE, wasFilled |-> FALSE]

\* the record of a tile added with success
AddedRecord(st, tile, dependent_tiles) ==
    [tile |-> tile, deps |-> dependent_tiles,
     slot |-> <<st.posY[1], st.posX[1]>>,
     shift |-> At(st.shifts, st.posY[1], st.posX[1])]

\* no direct call of _estimateMatch was made
NoMatch == [called |-> FALSE, imageA |-> <<>>, imageB |-> <<>>, shift |-> <<0, 0>>,
            out |-> NoneV]

\* no calibration sub-task was created
NoCalibration ==
    [kind |-> "none", state |-> "RUNNING", lock |-> "free", pc |-> "none", raised |-> FALSE,
     outcome |-> "none", spot |-> 0, canc |-> <<>>]

\* no FindOverlay task was created
NoOverlay == [pc |-> "none"]

\* no direct call of _estimateROI was made
NoROI == [called |-> FALSE, shift |-> <<0, 0>>, out |-> NoneV]

Init ==
    /\ self = ShiftRegistrar
    /\ clean = ShiftRegistrar
    /\ calls = 0
    /\ last = NoCall
    /\ added = <<>>
    /\ ret = NotCalled
    /\ plan = <<>>
    /\ identity = IdentityRegistrar
    /\ iret = NotCalled
    /\ roiCall = NoROI
    /\ matchCall = NoMatch
    /\ est = NoneV
    /\ cal = NoCalibration
    /\ ovl = NoOverlay

InitScan ==
    /\ self = ShiftRegistrar
    /\ clean = ShiftRegistrar
    /\ calls = 0
    /\ last = NoCall
    /\ added = <<>>
    /\ ret = NotCalled
    /\ plan \in Scans
    /\ identity = IdentityRegistrar
    /\ iret = NotCalled
    /\ roiCall = NoROI
    /\ matchCall = NoMatch
    /\ est = NoneV
    /\ cal = NoCalibration
    /\ ovl = NoOverlay

\* the call on the second registrar, which is not given the calls that fail
\* on self with the shape or the ordering error
cleanAfter(r, tile, dependent_tiles, oh, ov) ==
    IF r.exc \in {"ShapeMismatch", "OrderingError"} THEN clean
    ELSE IF clean = self THEN r.st
    ELSE addTile(clean, tile, dependent_tiles, oh, ov).st

\* registrar.addTile(tile, dependent_tiles), on both registrars
AddTile ==
    /\ calls < (IF plan = <<>> THEN MaxCalls ELSE Len(plan))
    /\ \E tile \in TileInputs, dependent_tiles \in DepInputs :
         \E hd \in {addTileHead(self, tile, dependent_tiles)} :
           \E oh \in HorOracles(hd, tile), ov \in VerOracles(hd, tile) :
             \E r \in {register(hd, tile, oh, ov)} :
               /\ self' = r.st
               /\ clean' = cleanAfter(r, tile, dependent_tiles, oh, ov)
               /\ calls' = calls + 1
               /\ last' = CallRecord(hd, tile, dependent_tiles, r.exc)
               /\ added' = IF r.exc = "none"
                           THEN Append(added, AddedRecord(r.st, tile, dependent_tiles))
                           ELSE added
               /\ ret' = NotCalled
               /\ plan' = plan
               /\ identity' = identityAddTile(identity, tile, dependent_tiles)
               /\ iret' = NotCalled
               /\ roiCall' = roiCall
               /\ matchCall' = matchCall
               /\ est' = IF est = NoneV THEN NoneV ELSE estimatesOf(hd, tile, oh, ov)
               /\ UNCHANGED <<cal, ovl>>

\* registrar.getPositions(), on both registrars
GetPositions ==
    /\ ret' = getPositions(self)
    /\ iret' = identityGetPositions(identity)
    /\ UNCHANGED <<self, clean, calls, last, added, plan, identity, roiCall, matchCall, est, cal, ovl>>

Next == AddTile \/ GetPositions

\* any tile of Shapes at any position of Positions, MaxCalls calls
Spec == Init /\ [][Next]_vars

\* the tiles of a planned scan
SpecScan == InitScan /\ [][Next]_vars

\* the scans whose estimates are recorded
InitEstimates ==
    /\ self = ShiftRegistrar
    /\ clean = ShiftRegistrar
    /\ calls = 0
    /\ last = NoCall
    /\ added = <<>>
    /\ ret = NotCalled
    /\ plan \in Scans
    /\ identity = IdentityRegistrar
    /\ iret = NotCalled
    /\ roiCall = NoROI
    /\ matchCall = NoMatch
    /\ est = [before |-> ShiftRegistrar, hor |-> NoEstimate, ver |-> NoEstimate]
    /\ cal = NoCalibration
    /\ ovl = NoOverlay

\* the tiles of a planned scan, with what every estimate measured
SpecEstimates == InitEstimates /\ [][Next]_vars

\* the shifts _estimateROI is called with
ROIShifts == (-MaxShift .. MaxShift) \X (-MaxShift .. MaxShift)

\* a registrar that holds the size of its tiles, as after the first addTile
InitROI ==
    /\ \E size \in Shapes \cup {TallShape} : self = [ShiftRegistrar EXCEPT !.size = size]
    /\ clean = ShiftRegistrar
    /\ calls = 0
    /\ last = NoCall
    /\ added = <<>>
    /\ ret = NotCalled
    /\ plan = <<>>
    /\ identity = IdentityRegistrar
    /\ iret = NotCalled
    /\ roiCall = NoROI
    /\ matchCall = NoMatch
    /\ est = NoneV
    /\ cal = NoCalibration
    /\ ovl = NoOverlay

\* self._estimateROI(shift), called once
EstimateROI ==
    /\ ~roiCall.called
    /\ \E shift \in ROIShifts :
         roiCall' = [called |-> TRUE, shift |-> shift, out |-> estimateROI(self.size, shift)]
    /\ UNCHANGED <<self, clean, calls, last, added, ret, plan, identity, iret, matchCall, est, cal, ovl>>

\* _estimateROI on any shift of ROIShifts
SpecROI == InitROI /\ [][EstimateROI]_vars

\* the shape of the images given to _estimateMatch: 2 rows of 3 pixels
MatchShape == <<2, 3>>

\* the images of shape MatchShape with pixels in 0 .. MaxPixel
Images == [1 .. MatchShape[1] -> [1 .. MatchShape[2] -> 0 .. MaxPixel]]

\* the shifts _estimateMatch is called with
MatchShifts == (-MaxMatchShift .. MaxMatchShift) \X (-MaxMatchShift .. MaxMatchShift)

\* a registrar of tiles of MatchShape after a tile was declared 2 pixels to
\* the right of the first one (osize 1, tsize 2), and two images
InitMatch ==
    /\ self = setOverlap([ShiftRegistrar EXCEPT !.size = MatchShape, !.px_size = PxSize],
                         0, 2)
    /\ clean = ShiftRegistrar
    /\ calls = 0
    /\ last = NoCall
    /\ added = <<>>
    /\ ret = NotCalled
    /\ plan = <<>>
    /\ identity = IdentityRegistrar
    /\ iret = NotCalled
    /\ roiCall = NoROI
    /\ \E imageA \in Images, imageB \in Images :
         matchCall = [NoMatch EXCEPT !.imageA = imageA, !.imageB = imageB]
    /\ est = NoneV
    /\ cal = NoCalibration
    /\ ovl = NoOverlay

\* self._estimateMatch(imageA, imageB, shift), called once
EstimateMatch ==
    /\ ~matchCall.called
    /\ \E shift \in MatchShifts :
         matchCall' = [matchCall EXCEPT !.called = TRUE, !.shift = shift,
                                        !.out = estimateMatchOfImages(self, matchCall.imageA,
                                                                      matchCall.imageB, shift)]
    /\ UNCHANGED <<self, clean, calls, last, added, ret, plan, identity, iret, roiCall, est, cal, ovl>>

\* _estimateMatch on any two images of Images and any shift of MatchShifts
SpecMatch == InitMatch /\ [][EstimateMatch]_vars

----------------------------------------------------------------------------
(* Properties of the list of main tiles and of the dependent tiles *)

\* what getPositions() should report for the i-th tile added with success:
\* the shift stored for it, from the position of the first tile
registeredPosition(i) ==
    <<(added[i].shift[1] + added[1].tile.pos[1] \div PxSize[1]) * PxSize[1],
      (added[1].tile.pos[2] \div PxSize[2] - added[i].shift[2]) * PxSize[2]>>

\* the number of dependent tiles passed with a tile
depCount(dependent_tiles) == IF dependent_tiles = NoneV THEN 0 ELSE Len(dependent_tiles[1])

\* C1: once a tile was added, getPositions() returns one position per
\* successful addTile call, the i-th being the position registered for the
\* i-th tile added with success; a failed addTile adds no entry.
C1_MainListInInsertionOrder ==
    (ret.exc # "notcalled" /\ Len(added) >= 1) =>
        /\ ret.exc = "none"
        /\ Len(ret.tile_positions) = Len(added)
        /\ \A i \in 1 .. Len(added) : ret.tile_positions[i] = registeredPosition(i)

\* C2: after addTile calls that all succeeded, each with None, an empty list
\* or a list of dependent tiles, the dependent list of getPositions() has one
\* entry per tile, the i-th with as many positions as dependent tiles were
\* passed with the i-th tile.
C2_OneDependentEntryPerTile ==
    (ret.exc = "none" /\ Len(added) = calls) =>
        /\ Len(ret.dep_tile_positions) = Len(added)
        /\ \A i \in 1 .. Len(added) :
              Len(ret.dep_tile_positions[i]) = depCount(added[i].deps)

\* C3: for every tile added with dependent tiles, getPositions() returns each
\* dependent tile at the position returned for that main tile plus the offset
\* declared at insertion (dependent MD_POS minus main MD_POS), in the order
\* they were passed.
C3_DependentOffsetPreserved ==
    ret.exc = "none" =>
        \A i \in 1 .. Len(added) :
            depCount(added[i].deps) > 0 =>
                /\ i <= Len(ret.dep_tile_positions)
                /\ Len(ret.dep_tile_positions[i]) = depCount(added[i].deps)
                /\ \A k \in 1 .. depCount(added[i].deps) :
                      ret.dep_tile_positions[i][k] =
                          <<ret.tile_positions[i][1]
                                + (added[i].deps[1][k].pos[1] - added[i].tile.pos[1]),
                            ret.tile_positions[i][2]
                                + (added[i].deps[1][k].pos[2] - added[i].tile.pos[2])>>

\* C4: after one or more addTile calls that all succeeded, slot (0, 0) holds
\* the first tile added, with the shift (0, 0), and the first position of
\* getPositions() is the declared position of that tile.
C4_FirstTileIsOrigin ==
    (Len(added) >= 1 /\ Len(added) = calls) =>
        /\ At(self.tiles, 0, 0) = Some(added[1].tile)
        /\ At(self.shifts, 0, 0) = <<0, 0>>
        /\ ret.exc # "notcalled" =>
              (ret.exc = "none" /\ ret.tile_positions[1] = added[1].tile.pos)

\* C5: a slot is written once: no step changes the tile of a filled slot or a
\* shift that is stored.
C5_SlotsWrittenOnce ==
    [][\A p \in Filled(self) :
          /\ At(self'.tiles, p[1], p[2]) = At(self.tiles, p[1], p[2])
          /\ At(self.shifts, p[1], p[2]) # NoneV =>
                At(self'.shifts, p[1], p[2]) = At(self.shifts, p[1], p[2])]_vars

----------------------------------------------------------------------------
(* Properties of the failures of addTile *)

\* C6: an addTile call, other than the first, with a tile whose shape is not
\* the shape of the first tile fails with the shape-mismatch error, and
\* changes neither the grid of tiles nor the acquisition order.
C6_ShapeMismatchRejected ==
    [][(calls' = calls + 1 /\ Len(added) >= 1
            /\ last'.tile.shape # added[1].tile.shape) =>
          (/\ last'.exc = "ShapeMismatch"
           /\ self'.tiles = self.tiles
           /\ self'.acqOrder = self.acqOrder)]_vars

\* a call has just failed with the shape-mismatch error
C6_ShapeMismatchSeen ==
    /\ last.exc = "ShapeMismatch"
    /\ last.tile.shape # added[1].tile.shape

\* C7: an addTile call whose slot (row, col) has row > 0, col > 0 and both the
\* slot above and the slot to the left empty fails with the ordering error,
\* and changes neither the grid of tiles, nor the shifts, nor the acquisition
\* order.
C7_OrderingViolationRejected ==
    [][(calls' = calls + 1 /\ last'.located
            /\ last'.slot[1] > 0 /\ last'.slot[2] > 0
            /\ ~last'.hadAbove /\ ~last'.hadLeft) =>
          (/\ last'.exc = "OrderingError"
           /\ self'.tiles = self.tiles
           /\ self'.shifts = self.shifts
           /\ self'.acqOrder = self.acqOrder)]_vars

\* a call has just failed with the ordering error, its slot below row 0 and
\* right of column 0, with nothing above and nothing to the left
C7_OrderingErrorSeen ==
    /\ last.exc = "OrderingError"
    /\ last.slot[1] > 0 /\ last.slot[2] > 0
    /\ ~last.hadAbove /\ ~last.hadLeft

\* C8: after calls that failed with the ordering or the shape-mismatch error,
\* getPositions() returns what it returns on a registrar that was given the
\* same calls without the failed ones.
C8_FailedCallLeavesNoTrace == getPositions(self) = getPositions(clean)

\* C9: no addTile call ends with the no-overlap error of _estimateROI.
C9_NoOverlapNeverPropagates == last.exc # "NoOverlap"

\* C10: after addTile calls that all succeeded, the tile stored last, if in a
\* slot other than (0, 0), found a tile in the slot above or in the slot to the
\* left when it was stored.
C10_FilledNextToFilled ==
    (Len(added) = calls /\ last.stored /\ last.norm # <<0, 0>>) =>
        (last.hadAbove \/ last.hadLeft)

----------------------------------------------------------------------------
(* Properties of the slot selection *)

\* the squared distance between two declared positions
sqDistance(a, b) == (a[1] - b[1]) * (a[1] - b[1]) + (a[2] - b[2]) * (a[2] - b[2])

\* the 4-neighbour of slot p for the displacement (dx, dy)
neighbourFor(p, dx, dy) ==
    IF Abs(dy) > Abs(dx)
    THEN (IF dy < 0 THEN <<p[1] + 1, p[2]>> ELSE <<p[1] - 1, p[2]>>)
    ELSE (IF dx > 0 THEN <<p[1], p[2] + 1>> ELSE <<p[1], p[2] - 1>>)

\* C11: for every tile after the first whose slot is computed, the slot is
\* the 4-neighbour, chosen by the displacement, of a stored tile whose
\* declared position is nearest to the declared position of the new tile.
C11_SlotNextToNearest ==
    [][(calls' = calls + 1 /\ last'.located /\ Filled(self) # {}) =>
          \E p \in Filled(self) :
              /\ \A q \in Filled(self) :
                    sqDistance(last'.tile.pos, At(self.tiles, p[1], p[2])[1].pos)
                        <= sqDistance(last'.tile.pos, At(self.tiles, q[1], q[2])[1].pos)
              /\ last'.slot =
                    neighbourFor(p,
                        last'.tile.pos[1] - At(self.tiles, p[1], p[2])[1].pos[1],
                        last'.tile.pos[2] - At(self.tiles, p[1], p[2])[1].pos[2])]_vars

\* a tile was given a slot on the diagonal of its reference, with three tiles
\* or more stored
C11_DiagonalSlotSeen ==
    /\ plan = Diagonal /\ calls >= 4
    /\ last.located /\ last.exc = "none"

----------------------------------------------------------------------------
(* Properties of the IdentityRegistrar *)

\* C12: the main list that getPositions() of the IdentityRegistrar returns is
\* empty at first, every addTile call appends the declared MD_POS of its tile
\* to it, and nothing else changes it.
C12_IdentityReturnsDeclared ==
    /\ identityGetPositions(identity).tile_positions = <<>>
    /\ [][identityGetPositions(identity').tile_positions =
              IF calls' = calls + 1
              THEN Append(identityGetPositions(identity).tile_positions, last'.tile.pos)
              ELSE identityGetPositions(identity).tile_positions]_vars

\* getPositions() of the IdentityRegistrar returned the positions of two tiles
C12_IdentityListSeen ==
    /\ iret.exc = "none" /\ calls = 2
    /\ Len(iret.tile_positions) = 2
    /\ iret.tile_positions[2] = last.tile.pos
    /\ iret.tile_positions[1] # last.tile.pos

\* C13: after addTile calls that all succeeded on both registrars, the two
\* getPositions() results have main lists of the same length and dependent
\* lists with the same number of entries and of positions in each entry.
C13_RegistrarsInterchangeable ==
    (ret.exc = "none" /\ iret.exc = "none" /\ Len(added) = calls) =>
        /\ Len(ret.tile_positions) = Len(iret.tile_positions)
        /\ Len(ret.dep_tile_positions) = Len(iret.dep_tile_positions)
        /\ \A i \in 1 .. Len(ret.dep_tile_positions) :
              Len(ret.dep_tile_positions[i]) = Len(iret.dep_tile_positions[i])

----------------------------------------------------------------------------
(* Properties of getPositions *)

\* C14: getPositions() completes without error in every reachable state,
\* before the first addTile included; it changes no field of the registrar,
\* and a second call with no addTile in between returns the same result.
C14_GetPositionsAnyTime ==
    /\ [](ret.exc # "notcalled" => ret.exc = "none")
    /\ [][calls' = calls =>
             (self' = self /\ (ret.exc # "notcalled" => ret' = ret))]_vars

----------------------------------------------------------------------------
(* Properties of the stored position *)

\* no shift was recorded yet: the histories are empty and the last shifts
\* are those of construction
noHistory(s) ==
    /\ \A r \in 1 .. Len(s.coords_hor) : \A c \in 1 .. Len(s.coords_hor[r]) :
         s.coords_hor[r][c] = NoneV /\ s.coords_ver[r][c] = NoneV
    /\ s.last_hor = <<0, 0>>
    /\ s.last_ver = <<0, 0>>

\* the estimates h and v that exist have match 0
allMatchesZero(h, v) ==
    /\ h.pos # NoneV \/ v.pos # NoneV
    /\ h.match = 0
    /\ v.match = 0

\* the position stored by the call from s to t, whose head is hd, is `ideal`
\* whenever its estimates all have match 0
idealWhenUnmatched(hd, tile, t, row, col) ==
    \A oh \in HorOracles(hd, tile), ov \in VerOracles(hd, tile) :
      \A h \in {horEstimate(storeTile(hd.st, tile, row, col), row, col, oh)} :
        \A v \in {IF h.exc = "none" /\ topNeighbour(h.st, row, col) # "IndexError"
                  THEN verEstimate(h.st, row, col, ov)
                  ELSE Estimate("skipped", h.st, NoneV, 0)} :
          (/\ v.exc = "none"
           /\ t = afterVer(row, col, idealPos(hd.st, row, col), h, v).st
           /\ allMatchesZero(h, v))
            => At(t.shifts, row, col) = idealPos(hd.st, row, col)

\* C15: when every estimate of a newly inserted tile has match 0 and no shift
\* was recorded before, the position stored for the tile is the ideal grid
\* position (int(col * width * (1 - overlap)), int(row * height * (1 - overlap))),
\* also when only one of the two estimates exists.
C15_UnmatchedTileAtIdealPosition ==
    [][(calls' = calls + 1 /\ last'.exc = "none" /\ noHistory(self))
         => \A hd \in {addTileHead(self, last'.tile, last'.deps)} :
              idealWhenUnmatched(hd, last'.tile, self', hd.st.posY[1], hd.st.posX[1])]_vars


\* the position one ideal spacing away from the neighbour of side xdir, at
\* the neighbour's y: what the horizontal estimate gives with the deviation
\* (0, 0)
undeviatedPos(s, row, col, xdir) ==
    <<spacedPos(s, At(s.shifts, row, prevCol(col, xdir))[1], s.size[2],
                IF xdir = LEFT THEN 1 ELSE -1, 0),
      At(s.shifts, row, prevCol(col, xdir))[2]>>

\* pos has the y of the neighbour of side xdir and an x one ideal spacing
\* width * (1 - overlap) away from it, within one pixel
oneSpacingAway(s, row, col, xdir, pos) ==
    /\ pos[2] = At(s.shifts, row, prevCol(col, xdir))[2]
    /\ Abs((pos[1] - At(s.shifts, row, prevCol(col, xdir))[1]) * s.ovrlp[2]
           - (IF xdir = LEFT THEN 1 ELSE -1) * s.size[2] * (s.ovrlp[2] - s.ovrlp[1]))
         <= s.ovrlp[2]

\* the tile of slot (row, col) is the second of its row
secondOfRow(t, row) ==
    Cardinality({c \in 1 .. Len(t.tiles[1]) : At(t.tiles, row, c - 1) # NoneV}) = 2

\* the neighbour of side xdir is the first tile of the mosaic, at (0, 0)
nextToFirstTile(s, row, col, xdir) ==
    /\ Norm(s.tiles, row, prevCol(col, xdir)) = <<0, 0>>
    /\ At(s.shifts, row, prevCol(col, xdir)) = <<0, 0>>

\* the horizontal estimate h measured the deviation (0, 0) with a match of
\* BEST_MATCH or more
undeviated(s, row, col, h) ==
    /\ h.pos # NoneV
    /\ h.match >= BEST_MATCH
    /\ h.pos = undeviatedPos(s, row, col, horNeighbour(s, row, col))

\* the vertical estimate v does not take part in the stored position
noVerticalSay(v) == v.pos = NoneV \/ v.match <= GOOD_MATCH

\* the call of head hd that led to t: whenever its horizontal estimate is
\* undeviated (and, unless anyVertical, the vertical one has no say), the
\* stored position is one spacing away from the neighbour, and the ideal
\* position when `second` holds.  An undeviated estimate leaves (0, 0) in
\* coords_hor (lines 415-417), so only such calls are looked at.
horizontalRule(hd, tile, t, row, col, anyVertical, second) ==
    At(t.coords_hor, row, col) = <<0, 0>> =>
      \A oh \in HorOracles(hd, tile), ov \in VerOracles(hd, tile) :
        \A s1 \in {storeTile(hd.st, tile, row, col)} :
          \A h \in {horEstimate(s1, row, col, oh)} :
            \A v \in {IF h.exc = "none" /\ topNeighbour(h.st, row, col) # "IndexError"
                      THEN verEstimate(h.st, row, col, ov)
                      ELSE Estimate("skipped", h.st, NoneV, 0)} :
              (/\ v.exc = "none"
               /\ t = afterVer(row, col, idealPos(hd.st, row, col), h, v).st
               /\ undeviated(s1, row, col, h)
               /\ anyVertical \/ noVerticalSay(v))
                => /\ oneSpacingAway(s1, row, col, horNeighbour(s1, row, col),
                                     At(t.shifts, row, col))
                   /\ second => At(t.shifts, row, col) = idealPos(hd.st, row, col)

----------------------------------------------------------------------------
(* Properties of the grid *)

\* the four per-slot arrays of s
slotArrays(s) == <<s.tiles, s.shifts, s.coords_hor, s.coords_ver>>

\* the four arrays have the same number of rows, of nx entries each
rectangular(s) ==
    \A k \in 1 .. 4 :
      /\ Len(slotArrays(s)[k]) = Len(s.tiles)
      /\ \A r \in 1 .. Len(s.tiles) : Len(slotArrays(s)[k][r]) = s.nx

\* from s to t the grid kept its rows and columns or gained one row or one
\* column
grownByOne(s, t) ==
    /\ Len(t.tiles) >= Len(s.tiles)
    /\ t.nx >= s.nx
    /\ (Len(t.tiles) - Len(s.tiles)) + (t.nx - s.nx) <= 1

\* from s to t every slot but `written` kept its content at its index, and
\* the new slots but `written` are empty
slotsKept(s, t, written) ==
    \A k \in 1 .. 4 : \A r \in 1 .. Len(t.tiles) : \A c \in 1 .. t.nx :
      <<r - 1, c - 1>> # written =>
        slotArrays(t)[k][r][c] = IF r <= Len(s.tiles) /\ c <= s.nx
                                 THEN slotArrays(s)[k][r][c]
                                 ELSE NoneV

C18_SlotWithinGrid ==
    (last.located /\ last.stored) =>
        /\ 0 <= last.slot[1] /\ last.slot[1] < Len(self.tiles)
        /\ 0 <= last.slot[2] /\ last.slot[2] < self.nx


\* C19: after every addTile call the overlap fraction lies in [0, 1], and the
\* overlap size and the expected shift tsize = int(extent - overlap size)
\* lie in [0, extent], extent being the height or the width of the tile.
C19_OverlapWithinTile ==
    (last.located /\ self.osize # NoneV) =>
        /\ 0 <= self.ovrlp[1] /\ self.ovrlp[1] <= self.ovrlp[2]
        /\ \E extent \in {self.size[1], self.size[2]} :
             /\ self.tsize[1] = extent - self.osize[1]
             /\ 0 <= self.osize[1] /\ self.osize[1] <= extent
             /\ 0 <= self.tsize[1] /\ self.tsize[1] <= extent

----------------------------------------------------------------------------
(* Properties of _estimateROI *)

\* C20: _estimateROI(shift) fails with the no-overlap error exactly when
\* |sx| >= tile width or |sy| >= tile height, for shifts of either sign, and
\* returns two regions otherwise.
C20_NoOverlapIffBeyondTile ==
    roiCall.called =>
        (roiCall.out.exc <=> (\/ Abs(roiCall.shift[1]) >= self.size[2]
                              \/ Abs(roiCall.shift[2]) >= self.size[1]))


\* the region (left, top, right, bottom) lies within a tile of shape size
\* and holds at least one pixel
regionInTile(r, size) ==
    /\ 0 <= r[1] /\ r[1] < r[3] /\ r[3] <= size[2]
    /\ 0 <= r[2] /\ r[2] < r[4] /\ r[4] <= size[1]

\* C21: when _estimateROI(shift) returns, its two regions lie within the tile,
\* are not empty, have the same width and the same height, and correspond
\* under the shift: l1 - l2 = sx and t1 - t2 = sy.
C21_RegionsCorrespond ==
    (roiCall.called /\ ~roiCall.out.exc) =>
        /\ regionInTile(roiCall.out.r1, self.size)
        /\ regionInTile(roiCall.out.r2, self.size)
        /\ roiCall.out.r1[3] - roiCall.out.r1[1] = roiCall.out.r2[3] - roiCall.out.r2[1]
        /\ roiCall.out.r1[4] - roiCall.out.r1[2] = roiCall.out.r2[4] - roiCall.out.r2[2]
        /\ roiCall.out.r1[1] - roiCall.out.r2[1] = roiCall.shift[1]
        /\ roiCall.out.r1[2] - roiCall.out.r2[2] = roiCall.shift[2]

----------------------------------------------------------------------------
(* Properties of _estimateMatch *)

\* the pixels of the regions the call of matchCall compared
regionA(m, size) ==
    crop(m.imageA, estimateROI(size, m.shift).r1[1], estimateROI(size, m.shift).r1[2],
         estimateROI(size, m.shift).r1[3], estimateROI(size, m.shift).r1[4])

regionB(m, size) ==
    crop(m.imageB, estimateROI(size, m.shift).r2[1], estimateROI(size, m.shift).r2[2],
         estimateROI(size, m.shift).r2[3], estimateROI(size, m.shift).r2[4])

\* all the pixels of a are equal: the standard deviation is 0
flat(a) == \A i \in 1 .. Len(a) : a[i] = a[1]

\* C22: the score _estimateMatch returns lies in [0, 1]; it is 0 when the
\* shift is outside the plausible range and when one of the two regions has
\* a standard deviation of 0.
C22_MatchWithinUnit ==
    (matchCall.called /\ matchCall.out.exc = "none") =>
        /\ matchCall.out.v.kind = "score"
        /\ 0 <= matchCall.out.v.c
        /\ matchCall.out.v.c * matchCall.out.v.c <= matchCall.out.v.vv
        /\ ~plausibleShift(self, matchCall.shift) => matchCall.out.v.c = 0
        /\ (/\ plausibleShift(self, matchCall.shift)
            /\ regionA(matchCall, self.size) # <<>>
            /\ flat(regionA(matchCall, self.size)) \/ flat(regionB(matchCall, self.size)))
             => matchCall.out.v.c = 0

----------------------------------------------------------------------------
(* Properties of the reconciliation *)

\* the per-axis average of two positions, truncated
averagePos(pos, pos2) ==
    <<Trunc(pos[1] + pos2[1], 2), Trunc(pos[2] + pos2[2], 2)>>

\* what is stored for the estimates h and v, which both exist
reconciledPos(h, v, ideal) ==
    IF h.match > GOOD_MATCH /\ v.match > GOOD_MATCH THEN averagePos(h.pos, v.pos)
    ELSE IF h.match = 0 /\ v.match = 0 THEN ideal
    ELSE IF v.match > h.match THEN v.pos
    ELSE h.pos

\* the call of head hd that led to t: whenever both its estimates exist, the
\* position stored is the reconciled one
bothEstimatesRule(hd, tile, t, row, col) ==
    horNeighbour(storeTile(hd.st, tile, row, col), row, col) # 0 =>
      \A oh \in HorOracles(hd, tile), ov \in VerOracles(hd, tile) :
        \A h \in {horEstimate(storeTile(hd.st, tile, row, col), row, col, oh)} :
          \A v \in {IF h.exc = "none" /\ topNeighbour(h.st, row, col) # "IndexError"
                    THEN verEstimate(h.st, row, col, ov)
                    ELSE Estimate("skipped", h.st, NoneV, 0)} :
            (/\ v.exc = "none"
             /\ h.pos # NoneV
             /\ v.pos # NoneV
             /\ t = afterVer(row, col, idealPos(hd.st, row, col), h, v).st)
              => At(t.shifts, row, col) = reconciledPos(h, v, idealPos(hd.st, row, col))

\* C23: when both a horizontal estimate (pos, match) and a vertical estimate
\* (pos2, match2) exist, the stored position is the truncated per-axis average
\* of pos and pos2 if both matches exceed GOOD_MATCH; otherwise it is the
\* estimate of higher match (the horizontal one when the matches are equal and
\* not both 0), and the ideal grid position when both matches are 0.
C23_BothEstimatesReconciled ==
    [][(calls' = calls + 1 /\ last'.exc = "none" /\ last'.hadAbove)
         => \A hd \in {addTileHead(self, last'.tile, last'.deps)} :
              bothEstimatesRule(hd, last'.tile, self', hd.st.posY[1], hd.st.posX[1])]_vars

\* a tile below a filled slot and to the right of its reference was stored
\* at a y that is not the y of its reference: the vertical estimate had its
\* say
C23_BothEstimatesSeen ==
    /\ plan = TallRaster
    /\ calls = 4
    /\ last.exc = "none"
    /\ last.hadAbove
    /\ last.hadLeft
    /\ self.pos_prev_x[1] < last.slot[2]
    /\ At(self.shifts, 1, 1)[2] # At(self.shifts, 1, 0)[2]


\* an estimate is computed for the tile stored in slot (row, col) of s1:
\* against the left or right neighbour, or against the tile above
estimated(s1, row, col) ==
    \/ horNeighbour(s1, row, col) # 0
    \/ topNeighbour(s1, row, col) = "yes"

\* C24: while every addTile call succeeds, slot (0,0) is the only slot for
\* which neither a horizontal nor a vertical estimate is computed: every other
\* stored tile is estimated against a stored neighbour.
C24_OnlyFirstSlotUnestimated ==
    [][(calls' = calls + 1 /\ Len(added') = calls' /\ last'.slot # <<0, 0>>)
         => \A hd \in {addTileHead(self, last'.tile, last'.deps)} :
              estimated(storeTile(hd.st, last'.tile, hd.st.posY[1], hd.st.posX[1]),
                        hd.st.posY[1], hd.st.posX[1])]_vars


----------------------------------------------------------------------------
(* Properties of the shift history *)

\* the history `new` after an estimate that accepted e for the slot
\* (row, col), `old` being the history before it: the entry of the slot is e
\* when the match of e is high, and no other entry differs from `old`
historyKept(old, new, row, col, e) ==
    /\ e.match >= BEST_MATCH => At(new, row, col) = e.xy
    /\ \A i \in 1 .. Len(new) : \A j \in 1 .. Len(new[i]) :
         new[i][j] # old[i][j]
            => /\ e.match >= BEST_MATCH
               /\ new[i][j] = e.xy
               /\ <<i - 1, j - 1>> = Norm(new, row, col)

\* the history `new` and the last shift `last_shift` after a call whose
\* estimate on the axis is recorded in rec, `old` being the history when the
\* tile was stored in the slot (row, col)
axisHistory(old, new, last_shift, row, col, rec) ==
    IF rec.made /\ rec.e.exc = "none"
    THEN /\ last_shift = rec.e.xy
         /\ historyKept(old, new, row, col, rec.e)
    ELSE new = old

\* C25: an entry of the horizontal history coords_hor[r][c] (of the vertical
\* history coords_ver[r][c]) is set only by an estimate for slot (r, c) on
\* that axis whose accepted shift has a match of at least BEST_MATCH, and is
\* then that shift; last_hor (last_ver) is the accepted shift of every
\* estimate of its axis, whatever the match.
C25_HistoryOfAcceptedShifts ==
    (est # NoneV /\ calls > 0) =>
        /\ axisHistory(est.before.coords_hor, self.coords_hor, self.last_hor,
                       est.before.posY[1], est.before.posX[1], est.hor)
        /\ axisHistory(est.before.coords_ver, self.coords_ver, self.last_ver,
                       est.before.posY[1], est.before.posX[1], est.ver)

\* a horizontal estimate of low match left the history as it was and became
\* the last shift, after an estimate of high match had been recorded
C25_HistorySeen ==
    /\ est # NoneV
    /\ est.hor.made
    /\ est.hor.e.exc = "none"
    /\ est.hor.e.match < BEST_MATCH
    /\ est.hor.e.xy # <<0, 0>>
    /\ \E i \in 1 .. Len(self.coords_hor) : \E j \in 1 .. Len(self.coords_hor[i]) :
         self.coords_hor[i][j] # NoneV
    /\ est.ver.made
    /\ est.ver.e.match >= BEST_MATCH


----------------------------------------------------------------------------
(* Properties of the fallback of an estimate *)

\* the slots of the history read by the fallback for slot (row, col): row
\* `row`, columns 1 .. col - 1, and column `col`, rows 1 .. row - 1
historyCells(row, col) ==
    {<<row, j>> : j \in 1 .. col - 1} \cup {<<i, col>> : i \in 1 .. row - 1}

\* the sum of the coordinate k of the entries of the cells
RECURSIVE SumCells(_, _, _)
SumCells(coords_array, cells, k) ==
    IF cells = {} THEN 0
    ELSE At(coords_array, (CHOOSE p \in cells : TRUE)[1],
            (CHOOSE p \in cells : TRUE)[2])[k]
           + SumCells(coords_array, cells \ {CHOOSE p \in cells : TRUE}, k)

\* the mean of the entries of the cells, or last_shift when there is none
meanOrLast(coords_array, cells, last_shift) ==
    IF cells = {} THEN last_shift
    ELSE <<Trunc(SumCells(coords_array, cells, 1), Cardinality(cells)),
           Trunc(SumCells(coords_array, cells, 2), Cardinality(cells))>>

\* the fallback candidate for slot (row, col)
chainCandidate(coords_array, last_shift, row, col) ==
    meanOrLast(coords_array,
               {p \in historyCells(row, col) : At(coords_array, p[1], p[2]) # NoneV},
               last_shift)

\* the shift accepted among the direct measurement d, the fallback shift
\* `mean` of match c, and the refined shift r: a later one is accepted only
\* when its match is strictly higher
strictlyBetter(d, mean, c, r) ==
    IF r # NoneV /\ r.match > Max2(d.match, c)
    THEN r
    ELSE IF c > d.match THEN Accepted(mean, c)
    ELSE d

\* no vertical estimate was made before the tile of slot (row, col) was
\* stored: no other filled slot of tiles is below a filled slot
noneAbove(tiles, row, col) ==
    \A i \in 2 .. Len(tiles) : \A j \in 1 .. Len(tiles[i]) :
        (tiles[i][j] # NoneV /\ tiles[i - 1][j] # NoneV) => <<i - 1, j - 1>> = <<row, col>>

\* the estimate recorded in rec for the slot (row, col), with the history
\* coords_array and the last shift last_shift of its axis before it
chainRule(coords_array, last_shift, row, col, rec, unmeasured) ==
    (rec.made /\ rec.d.exc = "none") =>
        /\ rec.tried = (rec.d.match < BEST_MATCH /\ (row > 1 \/ col > 1))
        /\ ~rec.tried => rec.e = rec.d
        /\ rec.tried =>
             /\ rec.mean = chainCandidate(coords_array, last_shift, row, col)
             /\ unmeasured => rec.mean = <<0, 0>>
             /\ rec.e.exc = "none" =>
                  /\ rec.e.match >= rec.d.match
                  /\ rec.e = strictlyBetter(rec.d, rec.mean, rec.c.v, rec.r)

\* C26: when the direct measurement of an estimate has a match below
\* BEST_MATCH and row > 1 or col > 1, the fallback candidate is the mean of
\* the history entries of the same row (columns 1 .. col-1) and of the same
\* column (rows 1 .. row-1), or the last shift measured on the axis when
\* there is no such entry, or (0,0) when nothing was measured yet; a
\* candidate, the fallback or its refinement, replaces the current shift only
\* if its match is strictly higher, so the accepted match is never lower than
\* the match of the direct measurement.
C26_FallbackChain ==
    (est # NoneV /\ calls > 0) =>
        /\ chainRule(est.before.coords_hor, est.before.last_hor,
                     est.before.posY[1], est.before.posX[1], est.hor, FALSE)
        /\ chainRule(est.before.coords_ver, est.before.last_ver,
                     est.before.posY[1], est.before.posX[1], est.ver,
                     noneAbove(est.before.tiles, est.before.posY[1], est.before.posX[1]))

\* the refinement of a fallback to the mean of the history was accepted
C26_RefinedMeanSeen ==
    /\ est # NoneV
    /\ est.hor.tried
    /\ est.hor.mean # <<0, 0>>
    /\ est.hor.mean # est.before.last_hor
    /\ est.hor.r # NoneV
    /\ est.hor.e = est.hor.r
    /\ est.hor.e.match > est.hor.d.match

\* the fallback of the first vertical estimate was the shift (0, 0)
C26_FirstFallbackSeen ==
    /\ est # NoneV
    /\ est.ver.tried
    /\ noneAbove(est.before.tiles, est.before.posY[1], est.before.posX[1])
    /\ est.ver.e.exc = "none"


----------------------------------------------------------------------------
(* Properties of the vertical estimate *)

\* the position one tile height, less the overlap, below `above`, moved back
\* by the shift xy and truncated
belowPos(above, height, ovrlp, xy) ==
    <<above[1] - xy[1],
      Trunc((above[2] - xy[2]) * ovrlp[2] + height * (ovrlp[2] - ovrlp[1]), ovrlp[2])>>

\* the position stored is the one of the vertical estimate: there is no
\* horizontal estimate, or its match is lower and not both are good
verticalStored(hor, ver) ==
    \/ ~hor.made
    \/ /\ hor.e.match < ver.e.match
       /\ ~(hor.e.match > GOOD_MATCH /\ ver.e.match > GOOD_MATCH)

\* the vertical estimate recorded in ver for the tile stored in slot
\* (row, col) of b, of a call that led to t
verticalRule(b, t, row, col, hor, ver, exc) ==
    /\ ver.made => (row > 0 /\ At(b.tiles, row - 1, col) # NoneV)
    /\ (exc = "none" /\ row > 0 /\ At(b.tiles, row - 1, col) # NoneV) => ver.made
    /\ (ver.made /\ ver.d.exc = "none") =>
         /\ ver.d.match # 0 =>
              plausibleShift(b, <<0 - ver.d.xy[1], b.tsize[1] - ver.d.xy[2]>>)
         /\ ver.tried = (ver.d.match < BEST_MATCH /\ (row > 1 \/ col > 1))
         /\ ver.tried =>
              ver.mean = chainCandidate(b.coords_ver, b.last_ver, row, col)
         /\ ver.e.exc = "none" =>
              /\ ver.e = (IF ver.tried
                          THEN strictlyBetter(ver.d, ver.mean, ver.c.v, ver.r)
                          ELSE ver.d)
              /\ axisHistory(b.coords_ver, t.coords_ver, t.last_ver, row, col, ver)
              /\ axisHistory(b.coords_hor, t.coords_hor, t.last_hor, row, col, hor)
              /\ ~hor.made => t.last_hor = b.last_hor
              /\ (exc = "none" /\ verticalStored(hor, ver)) =>
                   At(t.shifts, row, col)
                     = belowPos(At(b.shifts, row - 1, col), b.size[1], b.ovrlp, ver.e.xy)

\* C27: the vertical estimate mirrors the horizontal one: for a tile with a
\* filled slot directly above, the estimate against that tile uses the
\* expected shift (0, tsize), the vertical history coords_ver and last_ver,
\* the same fallback and refinement steps as the horizontal estimate, and
\* yields the position (above.x - x, above.y + height * (1 - overlap) - y)
\* truncated to integers; it never reads or writes the horizontal history.
C27_VerticalMirrorsHorizontal ==
    (est # NoneV /\ calls > 0) =>
        verticalRule(est.before, self, est.before.posY[1], est.before.posX[1],
                     est.hor, est.ver, last.exc)

\* a tile was stored at the position of its vertical estimate, which fell
\* back to a shift of the vertical history that differs from the last
\* horizontal shift
C27_VerticalFallbackSeen ==
    /\ est # NoneV
    /\ last.exc = "none"
    /\ est.ver.tried
    /\ est.ver.e.exc = "none"
    /\ est.ver.e.xy = est.ver.mean
    /\ est.ver.e # est.ver.d
    /\ est.ver.mean # est.before.last_hor
    /\ est.ver.mean # <<0, 0>>
    /\ verticalStored(est.hor, est.ver)


----------------------------------------------------------------------------
(* delphi_calibration: the sub-tasks HoleDetection, AlignAndOffset and     *)
(* RotationAndScaling.  The thread of the task runs _Do...; the canceller  *)
(* _Cancel... is called from other threads, up to MaxCancellers times.     *)

MaxCancellers == 2

SubTasks == {"HoleDetection", "AlignAndOffset", "RotationAndScaling"}

\* a canceller that was not called yet
NotCancelled == [pc |-> "idle", ret |-> NoneV]

\* HoleDetection, AlignAndOffset, RotationAndScaling: the future is created
\* with its state RUNNING and its lock, and the thread of the task is started
InitCalibration ==
    /\ self = ShiftRegistrar
    /\ clean = ShiftRegistrar
    /\ calls = 0
    /\ last = NoCall
    /\ added = <<>>
    /\ ret = NotCalled
    /\ plan = <<>>
    /\ identity = IdentityRegistrar
    /\ iret = NotCalled
    /\ roiCall = NoROI
    /\ matchCall = NoMatch
    /\ est = NoneV
    /\ \E kind \in SubTasks :
         cal = [NoCalibration EXCEPT !.kind = kind, !.pc = "try",
                                     !.canc = [i \in 1 .. MaxCancellers |-> NotCancelled]]
    /\ ovl = NoOverlay

Registrars ==
    <<self, clean, calls, last, added, ret, plan, identity, iret, roiCall, matchCall, est>>

\* _Do...: the test of the state in the try block, without the lock
DoTry ==
    /\ cal.pc = "try"
    /\ cal' = [cal EXCEPT !.pc = "finally", !.raised = (cal.state = "CANCELLED")]
    /\ UNCHANGED <<Registrars, ovl>>

\* _Do...: the finally block takes the lock
DoLock ==
    /\ cal.pc = "finally"
    /\ cal.lock = "free"
    /\ cal' = [cal EXCEPT !.pc = "locked", !.lock = "task"]
    /\ UNCHANGED <<Registrars, ovl>>

\* _Do...: under the lock, CancelledError if the state is CANCELLED, else
\* the state becomes FINISHED; an exception of the try block is raised again
\* when the finally block ends
DoFinally ==
    /\ cal.pc = "locked"
    /\ cal' = [cal EXCEPT !.pc = "done", !.lock = "free",
                          !.state = IF @ = "CANCELLED" THEN @ ELSE "FINISHED",
                          !.outcome = IF cal.state = "CANCELLED" \/ cal.raised
                                      THEN "CancelledError" ELSE "returned"]
    /\ UNCHANGED <<Registrars, ovl>>

\* _Cancel...: a call of the canceller takes the lock
CancelLock(i) ==
    /\ cal.pc # "none"
    /\ cal.canc[i].pc = "idle"
    /\ cal.lock = "free"
    /\ cal' = [cal EXCEPT !.lock = "canceller", !.canc[i].pc = "locked"]
    /\ UNCHANGED <<Registrars, ovl>>

\* a canceller that does not look at the state
CancelBodyUnchecked(i) ==
    /\ cal.canc[i].pc = "locked"
    /\ cal' = [cal EXCEPT !.lock = "free",
                          !.canc[i] = [pc |-> "done", ret |-> Some(TRUE)],
                          !.state = "CANCELLED"]
    /\ UNCHANGED <<Registrars, ovl>>

\* _Cancel...: under the lock, False if the state is FINISHED, else the
\* state becomes CANCELLED (and _alignspotf is cancelled) and True
CancelBody(i) ==
    /\ cal.canc[i].pc = "locked"
    /\ cal' = [cal EXCEPT !.lock = "free",
                          !.canc[i] = [pc |-> "done", ret |-> Some(cal.state # "FINISHED")],
                          !.state = IF @ = "FINISHED" THEN @ ELSE "CANCELLED",
                          !.spot = IF cal.state # "FINISHED" /\ cal.kind = "AlignAndOffset"
                                   THEN @ + 1 ELSE @]
    /\ UNCHANGED <<Registrars, ovl>>

NextCalibration ==
    \/ DoTry
    \/ DoLock
    \/ DoFinally
    \/ \E i \in 1 .. MaxCancellers : CancelLock(i)
    \/ \E i \in 1 .. MaxCancellers : CancelBody(i)

\* the thread of the task keeps running, and a canceller that holds the lock
\* runs on to release it
SpecCalibration ==
    /\ InitCalibration
    /\ [][NextCalibration]_vars
    /\ WF_vars(DoTry)
    /\ WF_vars(DoLock)
    /\ WF_vars(DoFinally)
    /\ WF_vars(\E i \in 1 .. MaxCancellers : CancelBody(i))


\* a sub-task that ended left its state FINISHED or CANCELLED, and raised
\* CancelledError exactly when it is CANCELLED
calEnded ==
    cal.pc = "done" =>
        /\ cal.state \in {"FINISHED", "CANCELLED"}
        /\ (cal.outcome = "CancelledError") = (cal.state = "CANCELLED")
        /\ (cal.outcome = "returned") = (cal.state = "FINISHED")

\* a canceller that returned True left a task that ends by raising
\* CancelledError; one that returned False found the task ended, FINISHED
calVerdicts ==
    \A i \in 1 .. Len(cal.canc) :
        cal.canc[i].pc = "done" =>
            /\ cal.canc[i].ret = Some(TRUE) =>
                 /\ cal.state = "CANCELLED"
                 /\ cal.pc = "done" => cal.outcome = "CancelledError"
            /\ cal.canc[i].ret = Some(FALSE) =>
                 /\ cal.state = "FINISHED"
                 /\ cal.pc = "done"
                 /\ cal.outcome = "returned"
            /\ cal.canc[i].ret \in {Some(TRUE), Some(FALSE)}

\* C28: under every interleaving of the thread of a calibration sub-task
\* (_Do...) with the calls of its canceller (_Cancel...), the task ends and
\* its state ends in exactly one of FINISHED or CANCELLED; a state that
\* became FINISHED never becomes CANCELLED and a state that became CANCELLED
\* never becomes FINISHED; the canceller returns True exactly when the task
\* ends by raising CancelledError and False exactly when the task reached
\* FINISHED first.
C28_SubTaskEndsOnce ==
    /\ [](calEnded /\ calVerdicts)
    /\ [][/\ cal.state = "FINISHED" => cal'.state = "FINISHED"
          /\ cal.state = "CANCELLED" => cal'.state = "CANCELLED"]_vars
    /\ <>(cal.pc = "done")

\* AlignAndOffset was cancelled after the test of its try block: it raised
\* CancelledError in the finally block, and both cancellers returned True
C28_CancelledInFinallySeen ==
    /\ cal.kind = "AlignAndOffset"
    /\ cal.pc = "done"
    /\ ~cal.raised
    /\ cal.outcome = "CancelledError"
    /\ cal.spot = 2
    /\ \A i \in 1 .. Len(cal.canc) : cal.canc[i].ret = Some(TRUE)


----------------------------------------------------------------------------
(* find_overlay: the thread of the task runs _DoFindOverlay; the canceller *)
(* _CancelFindOverlay is called from other threads, up to MaxCancellers    *)
(* times.  A grid scan ends on its own or is cancelled.  _future_scan is   *)
(* the module global: 0 when the name is not bound, else the number of the *)
(* scan it refers to.                                                      *)

MAX_TRIALS_NUMBER == 2

\* a canceller that was not called yet: target is the scan it cancelled
IdleCanceller == [pc |-> "idle", ret |-> NoneV, exc |-> "none", target |-> 0]

\* FindOverlay: the future is created with its state RUNNING and the thread
\* of the task is started; _future_scan is declared and not bound
InitOverlay ==
    /\ self = ShiftRegistrar
    /\ clean = ShiftRegistrar
    /\ calls = 0
    /\ last = NoCall
    /\ added = <<>>
    /\ ret = NotCalled
    /\ plan = <<>>
    /\ identity = IdentityRegistrar
    /\ iret = NotCalled
    /\ roiCall = NoROI
    /\ matchCall = NoMatch
    /\ est = NoneV
    /\ cal = NoCalibration
    /\ ovl = [pc |-> "top", state |-> "RUNNING", lock |-> "free", dwell |-> 1,
              scans |-> <<>>, scanDwell |-> <<>>, future_scan |-> 0, waiting |-> 0,
              pending |-> "none", stage |-> 0, found |-> <<>>, outcome |-> "none",
              canc |-> [i \in 1 .. MaxCancellers |-> IdleCanceller]]

\* the task ends by raising exc
raises(exc) == [ovl EXCEPT !.pc = "done", !.outcome = exc]

\* lines 78-81 and 135-138: the head of the loop.  After MAX_TRIALS_NUMBER
\* trials the else branch writes the report
TrialTop ==
    /\ ovl.pc = "top"
    /\ ovl' = IF Len(ovl.scans) = MAX_TRIALS_NUMBER THEN [ovl EXCEPT !.pc = "failLock"]
              ELSE IF ovl.state = "CANCELLED" THEN raises("CancelledError")
              ELSE [ovl EXCEPT !.pc = "create"]
    /\ UNCHANGED <<Registrars, cal>>

\* line 84: _future_scan = images.ScanGrid(repetitions, initial_dwell_time, ...)
CreateScan ==
    /\ ovl.pc = "create"
    /\ ovl' = [ovl EXCEPT !.pc = "wait",
                          !.scans = Append(@, "running"),
                          !.scanDwell = Append(@, ovl.dwell),
                          !.future_scan = Len(ovl.scans) + 1]
    /\ UNCHANGED <<Registrars, cal>>

\* line 88: _future_scan is looked up, NameError when it is not bound
LookUpScan ==
    /\ ovl.pc = "wait"
    /\ ovl' = IF ovl.future_scan = 0
              THEN [ovl EXCEPT !.pc = "finally", !.pending = "NameError"]
              ELSE [ovl EXCEPT !.pc = "result", !.waiting = ovl.future_scan]
    /\ UNCHANGED <<Registrars, cal>>

\* the grid scan k ends
ScanCompletes(k) ==
    /\ ovl.pc # "none"
    /\ k \in 1 .. Len(ovl.scans)
    /\ ovl.scans[k] = "running"
    /\ ovl' = [ovl EXCEPT !.scans[k] = "done"]
    /\ UNCHANGED <<Registrars, cal>>

\* line 88: result() returns when the scan has ended, and raises
\* CancelledError when it was cancelled
ScanResult ==
    /\ ovl.pc = "result"
    /\ ovl.scans[ovl.waiting] # "running"
    /\ ovl' = [ovl EXCEPT !.pc = "finally",
                          !.pending = IF ovl.scans[ovl.waiting] = "cancelled"
                                      THEN "CancelledError" ELSE "none"]
    /\ UNCHANGED <<Registrars, cal>>

\* lines 90, 139 and 151: the task takes _overlay_lock
TaskLock ==
    /\ ovl.pc \in {"finally", "failLock", "finishLock"}
    /\ ovl.lock = "free"
    /\ ovl' = [ovl EXCEPT !.lock = "task",
                          !.pc = IF @ = "finally" THEN "finallyLocked"
                                 ELSE IF @ = "failLock" THEN "failLocked"
                                 ELSE "finishLocked"]
    /\ UNCHANGED <<Registrars, cal>>

\* lines 89-92: the finally block after the scan; the exception of result()
\* is raised again when the block ends
AfterScan ==
    /\ ovl.pc = "finallyLocked"
    /\ ovl' = IF ovl.state = "CANCELLED"
              THEN [raises("CancelledError") EXCEPT !.lock = "free"]
              ELSE IF ovl.pending # "none"
              THEN [raises(ovl.pending) EXCEPT !.lock = "free"]
              ELSE [ovl EXCEPT !.lock = "free", !.pc = "pipeline", !.stage = 1]
    /\ UNCHANGED <<Registrars, cal>>

\* steps on the image that go on to a further trial after a match
PipelineRetrying ==
    /\ ovl.pc = "pipeline"
    /\ \E match \in BOOLEAN :
         ovl' = IF ovl.state = "CANCELLED" THEN raises("CancelledError")
                ELSE IF ovl.stage < 4 THEN [ovl EXCEPT !.stage = @ + 1]
                ELSE IF ovl.stage = 5 THEN [ovl EXCEPT !.pc = "finishLock"]
                ELSE [ovl EXCEPT !.pc = "top", !.found = Append(@, match),
                                 !.dwell = @ * 10]
    /\ UNCHANGED <<Registrars, cal>>

\* lines 99-134 and 146-149: the steps on the image, each after a test of
\* the state: 1 DivideInNeighborhoods, 2 FindCenterCoordinates,
\* 3 ReconstructCoordinates, 4 MatchCoordinates, which finds a match or
\* not (then the dwell time is multiplied by 10), 5 CalculateTransform
Pipeline ==
    /\ ovl.pc = "pipeline"
    /\ \E match \in BOOLEAN :
         ovl' = IF ovl.state = "CANCELLED" THEN raises("CancelledError")
                ELSE IF ovl.stage < 4 THEN [ovl EXCEPT !.stage = @ + 1]
                ELSE IF ovl.stage = 5 THEN [ovl EXCEPT !.pc = "finishLock"]
                ELSE IF match THEN [ovl EXCEPT !.stage = 5, !.found = Append(@, TRUE)]
                ELSE [ovl EXCEPT !.pc = "top", !.found = Append(@, FALSE),
                                 !.dwell = @ * 10]
    /\ UNCHANGED <<Registrars, cal>>

\* lines 139-143: after the report, FINISHED and ValueError
FinishFailure ==
    /\ ovl.pc = "failLocked"
    /\ ovl' = IF ovl.state = "CANCELLED"
              THEN [raises("CancelledError") EXCEPT !.lock = "free"]
              ELSE [raises("ValueError") EXCEPT !.lock = "free", !.state = "FINISHED"]
    /\ UNCHANGED <<Registrars, cal>>

\* lines 151-154: FINISHED
Finish ==
    /\ ovl.pc = "finishLocked"
    /\ ovl' = IF ovl.state = "CANCELLED"
              THEN [raises("CancelledError") EXCEPT !.lock = "free"]
              ELSE [ovl EXCEPT !.lock = "free", !.state = "FINISHED", !.pc = "del"]
    /\ UNCHANGED <<Registrars, cal>>

\* lines 158-159: del _future_scan, and the transformation is returned
DelScan ==
    /\ ovl.pc = "del"
    /\ ovl' = IF ovl.future_scan = 0 THEN raises("NameError")
              ELSE [raises("returned") EXCEPT !.future_scan = 0]
    /\ UNCHANGED <<Registrars, cal>>

\* line 221: a call of _CancelFindOverlay takes _overlay_lock
OverlayCancelLock(i) ==
    /\ ovl.pc # "none"
    /\ ovl.canc[i].pc = "idle"
    /\ ovl.lock = "free"
    /\ ovl' = [ovl EXCEPT !.lock = "canceller", !.canc[i].pc = "locked"]
    /\ UNCHANGED <<Registrars, cal>>

\* lines 222-224: False if the state is FINISHED, else CANCELLED
OverlayCancelMark(i) ==
    /\ ovl.canc[i].pc = "locked"
    /\ ovl' = IF ovl.state = "FINISHED"
              THEN [ovl EXCEPT !.lock = "free", !.canc[i].pc = "done",
                               !.canc[i].ret = Some(FALSE)]
              ELSE [ovl EXCEPT !.state = "CANCELLED", !.canc[i].pc = "cancel"]
    /\ UNCHANGED <<Registrars, cal>>

\* line 225: _future_scan.cancel(), NameError when the name is not bound; a
\* scan that has ended is left as it is
OverlayCancelScan(i) ==
    /\ ovl.canc[i].pc = "cancel"
    /\ ovl' = IF ovl.future_scan = 0
              THEN [ovl EXCEPT !.lock = "free", !.canc[i].pc = "done",
                               !.canc[i].exc = "NameError"]
              ELSE [ovl EXCEPT !.canc[i].pc = "del",
                               !.canc[i].target = ovl.future_scan,
                               !.scans[ovl.future_scan] =
                                    IF @ = "running" THEN "cancelled" ELSE @]
    /\ UNCHANGED <<Registrars, cal>>

\* lines 226-229: del _future_scan, and True
OverlayCancelDel(i) ==
    /\ ovl.canc[i].pc = "del"
    /\ ovl' = IF ovl.future_scan = 0
              THEN [ovl EXCEPT !.lock = "free", !.canc[i].pc = "done",
                               !.canc[i].exc = "NameError"]
              ELSE [ovl EXCEPT !.lock = "free", !.canc[i].pc = "done",
                               !.canc[i].ret = Some(TRUE), !.future_scan = 0]
    /\ UNCHANGED <<Registrars, cal>>

\* a step of the thread of the task
TaskStep ==
    \/ TrialTop
    \/ CreateScan
    \/ LookUpScan
    \/ ScanResult
    \/ TaskLock
    \/ AfterScan
    \/ Pipeline
    \/ FinishFailure
    \/ Finish
    \/ DelScan

\* a step of a canceller that holds the lock
CancelStep ==
    \E i \in 1 .. MaxCancellers :
        OverlayCancelMark(i) \/ OverlayCancelScan(i) \/ OverlayCancelDel(i)

NextOverlay ==
    \/ TaskStep
    \/ \E k \in 1 .. MAX_TRIALS_NUMBER : ScanCompletes(k)
    \/ \E i \in 1 .. MaxCancellers : OverlayCancelLock(i)
    \/ CancelStep

\* the thread of the task keeps running, every grid scan ends, and a
\* canceller that holds the lock runs on to release it
SpecOverlay ==
    /\ InitOverlay
    /\ [][NextOverlay]_vars
    /\ WF_vars(TaskStep)
    /\ WF_vars(\E k \in 1 .. MAX_TRIALS_NUMBER : ScanCompletes(k))
    /\ WF_vars(CancelStep)


\* the grid scans of a run: at most MAX_TRIALS_NUMBER, the first with the
\* dwell time given, each further one after a trial without a match and with
\* 10 times the dwell time of the one before
retryPolicy ==
    /\ Len(ovl.scans) <= MAX_TRIALS_NUMBER
    /\ Len(ovl.found) <= Len(ovl.scans)
    /\ \A k \in 1 .. Len(ovl.scans) :
         /\ ovl.scanDwell[k] = (IF k = 1 THEN 1 ELSE 10 * ovl.scanDwell[k - 1])
         /\ k > 1 => ovl.found[k - 1] = FALSE

\* how a run ends: the transformation and FINISHED after the first trial
\* with a match, ValueError and FINISHED after MAX_TRIALS_NUMBER trials
\* without one, CancelledError when the state is CANCELLED
runEnds ==
    ovl.pc = "done" =>
        /\ ovl.outcome \in {"returned", "ValueError", "CancelledError"}
        /\ ovl.outcome = "returned" =>
             /\ ovl.state = "FINISHED"
             /\ Len(ovl.found) = Len(ovl.scans)
             /\ ovl.found[Len(ovl.found)] = TRUE
        /\ ovl.outcome = "ValueError" =>
             /\ ovl.state = "FINISHED"
             /\ Len(ovl.found) = MAX_TRIALS_NUMBER
             /\ \A k \in 1 .. Len(ovl.found) : ovl.found[k] = FALSE
        /\ (ovl.outcome = "CancelledError") = (ovl.state = "CANCELLED")

\* C29: every run of _DoFindOverlay terminates after at most
\* MAX_TRIALS_NUMBER grid scans; a trial whose matching finds no match
\* multiplies the dwell time by 10 for the next scan; the run returns the
\* transformation with state FINISHED after the first trial whose matching
\* succeeds, raises ValueError with state FINISHED after MAX_TRIALS_NUMBER
\* failed trials, and raises CancelledError without ever setting FINISHED
\* once the state is CANCELLED.
C29_RetryPolicy ==
    /\ [](retryPolicy /\ runEnds)
    /\ [][ovl.state = "CANCELLED" => ovl'.state = "CANCELLED"]_vars
    /\ <>(ovl.pc = "done")

\* a run without any cancellation failed MAX_TRIALS_NUMBER trials, the
\* second with 10 times the dwell time, and raised ValueError
C29_OverlayFailureSeen ==
    /\ ovl.pc = "done"
    /\ ovl.outcome = "ValueError"
    /\ ovl.scanDwell = <<1, 10>>
    /\ ovl.dwell = 100
    /\ \A i \in 1 .. Len(ovl.canc) : ovl.canc[i].pc = "idle"

\* a run was cancelled during its second trial and raised CancelledError
C29_CancelledInSecondTrialSeen ==
    /\ ovl.pc = "done"
    /\ ovl.outcome = "CancelledError"
    /\ Len(ovl.scans) = MAX_TRIALS_NUMBER
    /\ ovl.scans[MAX_TRIALS_NUMBER] = "cancelled"


\* a canceller that has returned or raised: it did not raise; True after it
\* cancelled a scan that was in progress; False only when the state is
\* FINISHED
cancellerFoundScan(c) ==
    c.pc = "done" =>
        /\ c.exc = "none"
        /\ c.ret = Some(TRUE) =>
             /\ ovl.state = "CANCELLED"
             /\ c.target # 0
             /\ ovl.scans[c.target] = "cancelled"
        /\ c.ret = Some(FALSE) => ovl.state = "FINISHED"

\* C30: under every interleaving of _DoFindOverlay with calls of
\* _CancelFindOverlay, a canceller that finds the future not FINISHED finds
\* _future_scan defined and referring to the scan in progress, cancels it,
\* sets the state to CANCELLED and returns True without raising; a canceller
\* that finds it FINISHED returns False and changes nothing.
C30_CancellerFindsScan ==
    /\ [](\A i \in 1 .. Len(ovl.canc) : cancellerFoundScan(ovl.canc[i]))
    /\ [][\A i \in 1 .. Len(ovl.canc) :
            (ovl.canc[i].pc = "locked" /\ ovl.state = "FINISHED" /\ ovl'.canc[i].pc # "locked")
              => ovl' = [ovl EXCEPT !.lock = "free",
                                    !.canc[i] = [IdleCanceller EXCEPT !.pc = "done",
                                                                      !.ret = Some(FALSE)]]]_vars

====
